---------------------------- MODULE Spec2Model ----------------------------
(***************************************************************************)
(* A model of qir-qis: the QIR validator (validate_qir_core), the gate     *)
(* decomposition builder, and the QIR -> QIS rewriting pipeline            *)
(* (qir_to_qis_core).                                                      *)
(*                                                                         *)
(* Strings are sequences of tokens: every underscore is the token "_" and  *)
(* every maximal run of other characters is one token, so that the         *)
(* prefix tests of the code (starts_with) are computed, not assumed.       *)
(***************************************************************************)
EXTENDS Integers, Sequences, FiniteSets, TLC

VARIABLES
    pc,         \* position in the operation being run
    vmod,       \* the module handed to validate_qir_core
    errors,     \* validate_qir_core: the 'errors' vector
    verdict,    \* the Result the operation returns
    module,     \* qir_to_qis_core: the module being translated
    decompositions,  \* add_decompositions: the transient module of gate bodies
    tr,         \* qir_to_qis_core: the locals of the translation
    run,        \* an execution of the translated module
    host,       \* the process calling the API: the bitcode it holds, what its
                \* earlier calls returned, the decisions LLVM took in them
    unit,       \* a function of the crate called on its own, as the unit tests
                \* call it: its name, its arguments, what it returned
    process     \* the threads of a process that call optimize, and the state
                \* of the static TARGET_INIT they share

vars == <<pc, vmod, errors, verdict, module, decompositions, tr, run, host, unit, process>>

vvars == <<vmod, errors, run, host, unit, process>>           \* what qir_to_qis_core leaves alone
tvars == <<module, decompositions, tr, run, host, unit, process>>   \* what validate_qir_core leaves alone
xvars == <<vmod, errors, verdict, module, decompositions, tr, host, unit, process>>  \* what an execution leaves alone

(***************************************************************************)
(* Strings and names                                                       *)
(***************************************************************************)
U == "_"

StartsWith(s, p) == Len(s) >= Len(p) /\ SubSeq(s, 1, Len(p)) = p

Range(s) == {s[i] : i \in 1..Len(s)}

QisPrefix == <<U, U, "quantum", U, U, "qis", U, U>>
RtPrefix == <<U, U, "quantum", U, U, "rt", U, U>>
QtmPrefix == <<U, U, U>>

Body(g) == <<g, U, U, "body">>
Adj(g) == <<g, U, U, "adj">>
Qis(stem) == QisPrefix \o stem
Rt(stem) == RtPrefix \o stem
Qtm(stem) == QtmPrefix \o stem

ALLOWED_QIS_FNS ==
    {Qis(Body(g)) : g \in {"rxy", "rz", "rzz", "mz", "reset", "mresetz", "u1q", "m",
                           "h", "x", "y", "z", "s", "t", "rx", "ry", "cz", "cx",
                           "cnot", "ccx"}}
    \cup {Qis(Adj("s")), Qis(Adj("t"))}

ALLOWED_RT_FNS ==
    {Rt(<<"read", U, "result">>), Rt(<<"initialize">>),
     Rt(<<"result", U, "record", U, "output">>),
     Rt(<<"array", U, "record", U, "output">>),
     Rt(<<"tuple", U, "record", U, "output">>),
     Rt(<<"bool", U, "record", U, "output">>),
     Rt(<<"double", U, "record", U, "output">>),
     Rt(<<"int", U, "record", U, "output">>)}

ALLOWED_QTM_FNS(wasm) ==
    {Qtm(<<"get", U, "current", U, "shot">>), Qtm(<<"random", U, "seed">>),
     Qtm(<<"random", U, "int">>), Qtm(<<"random", U, "float">>),
     Qtm(<<"random", U, "int", U, "bounded">>), Qtm(<<"random", U, "advance">>)}
    \cup (IF wasm THEN {Qtm(<<"get", U, "wasm", U, "context">>)} ELSE {})

REQ_FLAG_COUNT == 4

\* ModuleFlagState::new: (index, name, expected_value, expected_str)
required ==
    <<[idx |-> 1, name |-> <<"qir", U, "major", U, "version">>, expected |-> 1,
       expected_str |-> "1"],
      [idx |-> 2, name |-> <<"qir", U, "minor", U, "version">>, expected |-> 0,
       expected_str |-> "0"],
      [idx |-> 3, name |-> <<"dynamic", U, "qubit", U, "management">>, expected |-> 0,
       expected_str |-> "false"],
      [idx |-> 4, name |-> <<"dynamic", U, "result", U, "management">>, expected |-> 0,
       expected_str |-> "false"]>>


(***************************************************************************)
(* Modules, functions and attributes                                       *)
(*                                                                         *)
(* A function is [name, attrs, retptr, body]: body is its sequence of      *)
(* basic blocks (empty for a declaration), retptr says whether its return  *)
(* type is a pointer type, attrs maps every string-attribute kind to       *)
(* [p |-> present, v |-> value]; an attribute value is a sequence of       *)
(* characters.                                                             *)
(***************************************************************************)
AttrKeys == {"entry_point", "required_num_qubits", "required_num_results",
             "qir_profiles", "output_labeling_schema", "cudaq-fnid", "wasm"}

NoAttr == [p |-> FALSE, v |-> <<>>]
Attr(val) == [p |-> TRUE, v |-> val]
NoAttrs == [k \in AttrKeys |-> NoAttr]

\* FunctionValue::get_string_attribute
get_string_attribute(f, key) == f.attrs[key]

\* FunctionValue::count_basic_blocks
count_basic_blocks(f) == Len(f.body)

None == [val |-> <<>>, some |-> FALSE]
Some(x) == [val |-> x, some |-> TRUE]

Digits == <<"0", "1", "2", "3", "4", "5", "6", "7", "8", "9">>
IsDigit(c) == c \in Range(Digits)
DigitVal(c) == (CHOOSE i \in 1..10 : Digits[i] = c) - 1

\* u32::MAX, 4294967295, as its decimal digits: the value is beyond the
\* integers of the checker, so u32 values are kept as canonical numerals
U32_MAX == <<"4", "2", "9", "4", "9", "6", "7", "2", "9", "5">>

RECURSIVE StripZeros(_)
\* the numeral without its leading zeros, "0" for zero
StripZeros(s) ==
    IF Len(s) > 1 /\ s[1] = "0" THEN StripZeros(Tail(s)) ELSE s

RECURSIVE NumeralLeq(_, _)
\* a <= b for canonical numerals of the same length
NumeralLeq(a, b) ==
    IF a = <<>> THEN TRUE
    ELSE IF DigitVal(a[1]) < DigitVal(b[1]) THEN TRUE
    ELSE IF DigitVal(a[1]) > DigitVal(b[1]) THEN FALSE
    ELSE NumeralLeq(Tail(a), Tail(b))

FitsU32(n) == Len(n) < Len(U32_MAX) \/ (Len(n) = Len(U32_MAX) /\ NumeralLeq(n, U32_MAX))

\* str::parse::<u32>: an optional "+", then one or more decimal digits whose
\* value fits 32 bits; the value is returned as its canonical numeral.
ParseU32(s) ==
    LET digits == IF s # <<>> /\ s[1] = "+" THEN Tail(s) ELSE s
    IN  IF digits = <<>> \/ \E i \in 1..Len(digits) : ~IsDigit(digits[i]) THEN None
        ELSE IF ~FitsU32(StripZeros(digits)) THEN None
        ELSE Some(StripZeros(digits))

U32(n) == <<"0", "1", "2", "3", "4", "5", "6", "7", "8", "9">>[n + 1]

RECURSIVE DecimalValue(_)
\* the integer a short canonical numeral denotes
DecimalValue(s) ==
    IF s = <<>> THEN 0
    ELSE 10 * DecimalValue(SubSeq(s, 1, Len(s) - 1)) + DigitVal(s[Len(s)])

\* convert.rs find_entry_function: the index of the first function that has a
\* string attribute of kind entry_point, 0 when there is none.
find_entry_function(fns) ==
    LET hits == {i \in 1..Len(fns) : fns[i].attrs["entry_point"].p}
    IN  IF hits = {} THEN 0 ELSE CHOOSE i \in hits : \A j \in hits : i <= j

(***************************************************************************)
(* validate_qir_core                                                       *)
(*                                                                         *)
(* A message is the formatted string: its literal text as one token,       *)
(* followed by the tokens of the name it quotes. The backquote of the      *)
(* messages is written as an apostrophe.                                   *)
(***************************************************************************)
RECURSIVE Join(_)
\* errors.join("; ")
Join(errs) ==
    IF errs = <<>> THEN <<>>
    ELSE IF Len(errs) = 1 THEN errs[1]
    ELSE errs[1] \o <<"; ">> \o Join(Tail(errs))

Ok == [ok |-> TRUE, msg |-> <<>>]
Err(m) == [ok |-> FALSE, msg |-> m]

MsgNoEntry == <<"No entry function found in QIR module">>
MsgNoBlocks == <<"Entry function has no basic blocks">>
MsgMissingAttr(attr) == <<"Missing required attribute: '", attr, "'">>
MsgAtLeastOne(type_) == <<"Entry function must have at least one ", type_>>
MsgUnsupportedQis(n) == <<"Unsupported QIR QIS function: ">> \o n
MsgUnsupportedRt(n) == <<"Unsupported QIR RT function: ">> \o n
MsgUnsupportedQtm(n) == <<"Unsupported Qtm QIS function: ">> \o n
MsgIrMain == <<"IR defined function cannot be called 'main'">>
MsgRetPtr(n) == <<"Function '">> \o n \o <<"' cannot return a pointer type">>
MsgMissingFlag(n) == <<"Missing required module flag: '">> \o n \o <<"'">>
MsgWrongFlag(n, e) == <<"Module flag '">> \o n \o <<"' must be ", e>>
MsgWasm == <<"Failed to parse WASM: ">>

required_attrs == <<"required_num_qubits", "required_num_results", "qir_profiles",
                    "output_labeling_schema">>

RECURSIVE MissingAttrErrors(_, _)
\* lib.rs 1088-1093: one message per absent required attribute, in order
MissingAttrErrors(f, attrs) ==
    IF attrs = <<>> THEN <<>>
    ELSE (IF ~get_string_attribute(f, Head(attrs)).p
          THEN <<MsgMissingAttr(Head(attrs))>> ELSE <<>>)
         \o MissingAttrErrors(f, Tail(attrs))

\* lib.rs 1096-1107: the attribute parses as u32 and the value is 0
ZeroCountError(f, attr, type_) ==
    IF get_string_attribute(f, attr).p
       /\ ParseU32(get_string_attribute(f, attr).v) = Some(<<"0">>)
    THEN <<MsgAtLeastOne(type_)>> ELSE <<>>

\* lib.rs 1076-1108: the checks of the entry function
EntryErrors(f) ==
    (IF f.body = <<>> THEN <<MsgNoBlocks>> ELSE <<>>)
    \o MissingAttrErrors(f, required_attrs)
    \o ZeroCountError(f, "required_num_qubits", "qubit")
    \o ZeroCountError(f, "required_num_results", "result")

\* validate_functions, the body of the loop for one function
FunctionErrors(fun, wasm) ==
    IF StartsWith(fun.name, QisPrefix)
    THEN IF fun.name \notin ALLOWED_QIS_FNS THEN <<MsgUnsupportedQis(fun.name)>> ELSE <<>>
    ELSE IF StartsWith(fun.name, RtPrefix)
    THEN IF fun.name \notin ALLOWED_RT_FNS THEN <<MsgUnsupportedRt(fun.name)>> ELSE <<>>
    ELSE IF StartsWith(fun.name, QtmPrefix)
    THEN IF fun.name \notin ALLOWED_QTM_FNS(wasm) THEN <<MsgUnsupportedQtm(fun.name)>>
         ELSE <<>>
    ELSE IF count_basic_blocks(fun) > 0
    THEN (IF fun.name = <<"main">> THEN <<MsgIrMain>> ELSE <<>>)
         \o (IF fun.retptr THEN <<MsgRetPtr(fun.name)>> ELSE <<>>)
    ELSE <<>>

RECURSIVE validate_functions_noskip(_, _, _, _)
\* validate_functions without the skip of the entry function
validate_functions_noskip(fns, entry_fn, wasm, i) ==
    IF i > Len(fns) THEN <<>>
    ELSE FunctionErrors(fns[i], wasm) \o validate_functions_noskip(fns, entry_fn, wasm, i + 1)

RECURSIVE validate_functions(_, _, _, _)
\* validate_functions: every function from index i on, the entry function skipped
validate_functions(fns, entry_fn, wasm, i) ==
    IF i > Len(fns) THEN <<>>
    ELSE (IF i = entry_fn THEN <<>> ELSE FunctionErrors(fns[i], wasm))
         \o validate_functions(fns, entry_fn, wasm, i + 1)

\* set_state that compares the payload without asking whether it is an integer
set_state_anyvalue(st, index, value, expected) ==
    [found |-> [st.found EXCEPT ![index] = TRUE],
     wrong |-> [st.wrong EXCEPT ![index] = value.val # expected]]

\* ModuleFlagState::set_state
set_state(st, index, value, expected) ==
    [found |-> [st.found EXCEPT ![index] = TRUE],
     wrong |-> [st.wrong EXCEPT ![index] = ~value.isint \/ value.val # expected]]

RECURSIVE ScanFlags(_, _)
\* validate_module_flags, first loop: a flag is [key, isint, val]
ScanFlags(flags, st) ==
    IF flags = <<>> THEN st
    ELSE LET md == Head(flags)
             hit == {i \in 1..REQ_FLAG_COUNT : required[i].name = md.key}
         IN  ScanFlags(Tail(flags),
                       IF hit = {} THEN st
                       ELSE LET i == CHOOSE i \in hit : \A j \in hit : i <= j
                            IN  set_state(st, required[i].idx, md, required[i].expected))

RECURSIVE FlagErrors(_, _)
\* validate_module_flags, second loop
FlagErrors(st, i) ==
    IF i > REQ_FLAG_COUNT THEN <<>>
    ELSE (IF ~st.found[required[i].idx] THEN <<MsgMissingFlag(required[i].name)>>
          ELSE IF st.wrong[required[i].idx]
          THEN <<MsgWrongFlag(required[i].name, required[i].expected_str)>>
          ELSE <<>>)
         \o FlagErrors(st, i + 1)

validate_module_flags(flags) ==
    FlagErrors(ScanFlags(flags, [found |-> [i \in 1..REQ_FLAG_COUNT |-> FALSE],
                                 wrong |-> [i \in 1..REQ_FLAG_COUNT |-> FALSE]]), 1)

(***************************************************************************)
(* validate_qir_core as steps                                              *)
(***************************************************************************)
\* lib.rs 1076-1112
ValidateEntry ==
    /\ pc = "validate"
    /\ LET e == find_entry_function(vmod.fns)
       IN  IF e = 0
           THEN /\ errors' = <<MsgNoEntry>>
                /\ verdict' = Err(Join(<<MsgNoEntry>>))
                /\ pc' = "validated"
           ELSE /\ errors' = errors \o EntryErrors(vmod.fns[e])
                /\ verdict' = verdict
                /\ pc' = "wasm"
    /\ UNCHANGED vmod
    /\ UNCHANGED tvars

\* lib.rs 1114 and get_wasm_functions: with the wasm feature, bytes that do
\* not parse make validate_qir_core return that error alone
GetWasmFunctions ==
    /\ pc = "wasm"
    /\ IF vmod.wasm_feature /\ vmod.wasm_bytes = "invalid"
       THEN /\ verdict' = Err(MsgWasm)
            /\ pc' = "validated"
       ELSE /\ verdict' = verdict
            /\ pc' = "functions"
    /\ UNCHANGED <<vmod, errors>>
    /\ UNCHANGED tvars

\* lib.rs 1116
ValidateFunctions ==
    /\ pc = "functions"
    /\ errors' = errors \o validate_functions(vmod.fns, find_entry_function(vmod.fns),
                                               vmod.wasm_feature, 1)
    /\ pc' = "flags"
    /\ UNCHANGED <<vmod, verdict>>
    /\ UNCHANGED tvars

\* lib.rs 1118
ValidateModuleFlags ==
    /\ pc = "flags"
    /\ errors' = errors \o validate_module_flags(vmod.flags)
    /\ pc' = "finish"
    /\ UNCHANGED <<vmod, verdict>>
    /\ UNCHANGED tvars

\* lib.rs 1120-1124
ValidateFinish ==
    /\ pc = "finish"
    /\ verdict' = IF errors # <<>> THEN Err(Join(errors)) ELSE Ok
    /\ pc' = "validated"
    /\ UNCHANGED <<vmod, errors>>
    /\ UNCHANGED tvars

NextValidate ==
    \/ ValidateEntry
    \/ GetWasmFunctions
    \/ ValidateFunctions
    \/ ValidateModuleFlags
    \/ ValidateFinish

(***************************************************************************)
(* The modules validate_qir_core is run on                                 *)
(***************************************************************************)
MaxFns == 2           \* functions of a module besides the entry function

Ret == [op |-> "ret", fn |-> <<>>, args |-> <<>>, id |-> 0]

Fn(name, attrs, retptr, body) ==
    [name |-> name, attrs |-> attrs, body |-> body, retptr |-> retptr]

Decl(name) == Fn(name, NoAttrs, FALSE, <<>>)

\* values of required_num_qubits / required_num_results
CountAttrs ==
    {NoAttr, Attr(<<"0">>), Attr(<<"1">>), Attr(<<"2">>), Attr(<<"+", "0">>),
     Attr(<<"a">>), Attr(<<>>), Attr(<<"-", "1">>),
     Attr(<<"4", "2", "9", "4", "9", "6", "7", "2", "9", "6">>),
     Attr(<<"0", "0">>)}

EntryAttrs(nq, nr, profiles, schema) ==
    [NoAttrs EXCEPT !["entry_point"] = Attr(<<>>),
                    !["required_num_qubits"] = nq,
                    !["required_num_results"] = nr,
                    !["qir_profiles"] = profiles,
                    !["output_labeling_schema"] = schema]

GoodEntryAttrs ==
    EntryAttrs(Attr(<<"1">>), Attr(<<"1">>), Attr(<<"base">>), Attr(<<"labeled">>))

GoodEntry(name) == Fn(name, GoodEntryAttrs, FALSE, <<<<Ret>>>>)

EntryVariants ==
    {Fn(<<"program">>, EntryAttrs(nq, nr, pr, sc), FALSE, body) :
        nq \in CountAttrs, nr \in {NoAttr, Attr(<<"0">>), Attr(<<"1">>), Attr(<<"a">>)},
        pr \in {NoAttr, Attr(<<"base">>)}, sc \in {NoAttr, Attr(<<"labeled">>)},
        body \in {<<>>, <<<<Ret>>>>}}

FnCatalog ==
    {Decl(Qis(Body("h"))), Decl(Qis(Body("foo"))),
     Decl(Rt(<<"initialize">>)), Decl(Rt(<<"foo">>)),
     Decl(Qtm(<<"random", U, "int">>)), Decl(Qtm(<<"qalloc">>)),
     Decl(Qtm(<<"get", U, "wasm", U, "context">>)),
     Decl(<<U, U, U, U, "x">>), Decl(<<U, U, "quantum", U, U, "foo">>),
     Decl(<<"main">>), Fn(<<"ext">>, NoAttrs, TRUE, <<>>),
     Fn(<<"main">>, NoAttrs, FALSE, <<<<Ret>>>>),
     Fn(<<"main">>, NoAttrs, TRUE, <<<<Ret>>>>),
     Fn(<<"helper">>, NoAttrs, FALSE, <<<<Ret>>>>),
     Fn(<<"helper">>, NoAttrs, TRUE, <<<<Ret>>>>),
     Fn(Qis(Body("foo")), NoAttrs, TRUE, <<<<Ret>>>>)}

RECURSIVE SeqsUpTo(_, _)
SeqsUpTo(S, n) ==
    IF n = 0 THEN {<<>>}
    ELSE LET shorter == SeqsUpTo(S, n - 1)
         IN  shorter \cup {Append(q, x) : q \in shorter, x \in S}

Flag(i, isint, val) == [val |-> val, key |-> required[i].name, isint |-> isint]

\* each required flag absent, an integer 0 or 1, or not an integer; keys are
\* unique, as LLVM requires of module flags
FlagChoices(i) == {<<>>, <<Flag(i, TRUE, 0)>>, <<Flag(i, TRUE, 1)>>, <<Flag(i, FALSE, 0)>>}

OtherFlag == [val |-> 7, key |-> <<"other">>, isint |-> TRUE]

FlagVariants ==
    {pre \o a \o b \o c \o d :
        pre \in {<<>>, <<OtherFlag>>}, a \in FlagChoices(1), b \in FlagChoices(2),
        c \in FlagChoices(3), d \in FlagChoices(4)}

GoodFlags == <<Flag(4, TRUE, 0), Flag(3, TRUE, 0), Flag(2, TRUE, 0), Flag(1, TRUE, 1)>>

VMod(fns, flags, feature, bytes) ==
    [fns |-> fns, flags |-> flags, wasm_feature |-> feature, wasm_bytes |-> bytes]

\* Three families: the entry function varies, the other functions vary, the
\* module flags vary; the rest is taken from a good and a bad value.
\* the functions of an LLVM module have distinct names
NamesDistinct(fns) == \A i, j \in 1..Len(fns) : fns[i].name = fns[j].name => i = j

AllValidatorInputs ==
    {VMod(<<e>> \o others, flags, FALSE, "none") :
        e \in EntryVariants, others \in {<<>>, <<Decl(Qis(Body("foo")))>>},
        flags \in {GoodFlags, <<>>}}
    \cup
    {VMod(pre \o others \o post, flags, feature, bytes) :
        pre \in {<<>>, <<GoodEntry(<<"main">>)>>},
        post \in {<<>>, <<GoodEntry(<<"program">>)>>},
        others \in SeqsUpTo(FnCatalog, MaxFns),
        flags \in {GoodFlags, <<Flag(1, TRUE, 0)>>},
        feature \in BOOLEAN, bytes \in {"none", "invalid"}}
    \cup
    {VMod(fns, flags, FALSE, "none") :
        fns \in {<<>>, <<GoodEntry(<<"main">>)>>,
                 <<Decl(Rt(<<"foo">>)), Fn(<<"program">>, NoAttrs, FALSE, <<<<Ret>>>>)>>},
        flags \in FlagVariants}

ValidatorInputs == {m \in AllValidatorInputs : NamesDistinct(m.fns)}

NoVerdict == [ok |-> FALSE, msg |-> <<>>]

\* the values of the translation's variables while the validator runs
NoModule == [fns |-> <<>>, globals |-> <<>>]
NoRun ==
    [status |-> "idle", stack |-> <<>>, qis_qs |-> <<>>, live |-> {}, bad_free |-> FALSE,
     used_freed |-> FALSE, latest |-> <<>>]

NoLocals ==
    [fn |-> 0, entry |-> 0, global_mapping |-> <<>>, result_ssa |-> <<>>, bb |-> 0,
     ip |-> 0, next_id |-> 0, opt_level |-> 0, target |-> "native", decomposed |-> Ok,
     hasher |-> 0, sites |-> <<>>]

\* no thread, TARGET_INIT not yet forced
NoProcess ==
    [once |-> "uninit", x86 |-> 0, aarch64 |-> 0, native |-> 0, early |-> FALSE,
     threads |-> <<>>]

\* no function called on its own
NoUnit == [f |-> "", args |-> <<>>, ret |-> <<>>]

\* a process that has made no call yet
NoHost == [bitcode |-> NoModule, outputs |-> <<>>, inlined |-> <<>>]

InitValidate ==
    /\ pc = "validate"
    /\ vmod \in ValidatorInputs
    /\ errors = <<>>
    /\ verdict = NoVerdict
    /\ module = NoModule
    /\ decompositions = <<>>
    /\ tr = NoLocals
    /\ run = NoRun
    /\ host = NoHost
    /\ unit = NoUnit
    /\ process = NoProcess

SpecValidate == InitValidate /\ [][NextValidate]_vars

(***************************************************************************)
(* Properties of validate_qir_core                                         *)
(***************************************************************************)
Contains(s, m) == \E i \in 0..(Len(s) - Len(m)) : SubSeq(s, i + 1, i + Len(m)) = m

EntryIndex == find_entry_function(vmod.fns)

OtherFns == {vmod.fns[i] : i \in (1..Len(vmod.fns)) \ {EntryIndex}}

FnMessageHeads ==
    {"Unsupported QIR QIS function: ", "Unsupported QIR RT function: ",
     "Unsupported Qtm QIS function: ", "IR defined function cannot be called 'main'",
     "Function '"}

ReportedFnMsgs == {m \in Range(errors) : m[1] \in FnMessageHeads}

\* what the per-function rule asks to be reported for one function
PerFunctionRule(f) ==
    IF StartsWith(f.name, QisPrefix)
    THEN {MsgUnsupportedQis(f.name) : x \in {f.name} \ ALLOWED_QIS_FNS}
    ELSE IF StartsWith(f.name, RtPrefix)
    THEN {MsgUnsupportedRt(f.name) : x \in {f.name} \ ALLOWED_RT_FNS}
    ELSE IF StartsWith(f.name, QtmPrefix)
    THEN {MsgUnsupportedQtm(f.name) : x \in {f.name} \ ALLOWED_QTM_FNS(vmod.wasm_feature)}
    ELSE IF f.body # <<>>
    THEN {MsgIrMain : x \in {f.name} \cap {<<"main">>}}
         \cup {MsgRetPtr(f.name) : x \in {f} \cap {g \in {f} : g.retptr}}
    ELSE {}

\* C7: once validate_functions has run, the function messages reported are
\* exactly those of the per-function rule applied to every function other
\* than the entry function: a reserved-prefix name outside its whitelist, an
\* IR-defined function named main, an IR-defined function returning a
\* pointer; an entry function named main contributes no message.
C7_PerFunctionRule ==
    pc \in {"flags", "finish"} =>
        /\ ReportedFnMsgs = UNION {PerFunctionRule(f) : f \in OtherFns}
        /\ vmod.fns[EntryIndex].name = <<"main">> => MsgIrMain \notin Range(errors)

C7_Witness ==
    /\ pc = "flags"
    /\ vmod.fns[EntryIndex].name = <<"main">>
    /\ vmod.fns[EntryIndex].body # <<>>
    /\ MsgIrMain \notin Range(errors)
    /\ \E f \in OtherFns : MsgUnsupportedQis(f.name) \in Range(errors)
    /\ \E f \in OtherFns : MsgRetPtr(f.name) \in Range(errors)

FlagMessageHeads == {"Missing required module flag: '", "Module flag '"}

ReportedFlagMsgs == {m \in Range(errors) : m[1] \in FlagMessageHeads}

FlagPresent(r) == \E i \in 1..Len(vmod.flags) : vmod.flags[i].key = r.name

FlagRight(r) ==
    \E i \in 1..Len(vmod.flags) :
        /\ vmod.flags[i].key = r.name
        /\ vmod.flags[i].isint
        /\ vmod.flags[i].val = r.expected

\* C8: once validate_module_flags has run, no flag message is reported
\* exactly when the four required flags are present with the values 1, 0, 0,
\* 0; an absent flag gets the "Missing required module flag" message, a flag
\* present with another value gets the "must be" message, and no flag gets
\* both.
C8_ModuleFlags ==
    pc = "finish" =>
        /\ (ReportedFlagMsgs = {}) <=> (\A i \in 1..REQ_FLAG_COUNT : FlagRight(required[i]))
        /\ <<required[1].expected, required[2].expected, required[3].expected,
             required[4].expected>> = <<1, 0, 0, 0>>
        /\ \A i \in 1..REQ_FLAG_COUNT :
            LET r == required[i]
                missing == MsgMissingFlag(r.name) \in Range(errors)
                wrong == MsgWrongFlag(r.name, r.expected_str) \in Range(errors)
            IN  /\ missing <=> ~FlagPresent(r)
                /\ wrong <=> (FlagPresent(r) /\ ~FlagRight(r))
                /\ ~(missing /\ wrong)

C8_Witness ==
    /\ pc = "finish"
    /\ ~FlagPresent(required[3])
    /\ MsgMissingFlag(required[3].name) \in Range(errors)
    /\ FlagPresent(required[2]) /\ ~FlagRight(required[2])
    /\ MsgWrongFlag(required[2].name, "0") \in Range(errors)
    /\ FlagRight(required[1])

CountUnusable(a) == a.p /\ (~ParseU32(a.v).some \/ ParseU32(a.v).val = <<"0">>)

\* C9: validate_qir fails whenever one of the four required entry attributes
\* is absent, and whenever required_num_qubits or required_num_results does
\* not parse as a u32 or parses to a value below 1.
C9_EntryAttributes ==
    (pc = "validated" /\ EntryIndex # 0
     /\ LET f == vmod.fns[EntryIndex]
        IN  \/ \E k \in Range(required_attrs) : ~f.attrs[k].p
            \/ CountUnusable(f.attrs["required_num_qubits"])
            \/ CountUnusable(f.attrs["required_num_results"]))
    => ~verdict.ok

\* the messages of every check that fails on the module, whatever the order
\* in which the checks are run
AllFindings ==
    (IF EntryIndex = 0 THEN <<MsgNoEntry>> ELSE EntryErrors(vmod.fns[EntryIndex]))
    \o (IF vmod.wasm_feature /\ vmod.wasm_bytes = "invalid" THEN <<MsgWasm>> ELSE <<>>)
    \o validate_functions(vmod.fns, EntryIndex, vmod.wasm_feature, 1)
    \o validate_module_flags(vmod.flags)

\* C10: the error string validate_qir returns contains the message of every
\* check that fails on the module.
C10_Accumulates ==
    pc = "validated" => \A m \in Range(AllFindings) : Contains(verdict.msg, m)

(***************************************************************************)
(* Instructions                                                            *)
(*                                                                         *)
(* An instruction is [op, fn, args, id]: fn is the name of the called      *)
(* function of a call, id the SSA value the instruction defines (0 when it *)
(* defines none).  An operand is [kind, v].  A floating-point constant is  *)
(* kept as its number of quarters of pi, which represents exactly every    *)
(* angle the code computes from PI.                                        *)
(***************************************************************************)
Operand(kind, v) == [v |-> v, kind |-> kind]

Call(fn, args) == [op |-> "call", fn |-> fn, args |-> args, id |-> 0]

CallValue(fn, args, id) == [op |-> "call", fn |-> fn, args |-> args, id |-> id]

PI == 4                     \* std::f64::consts::PI, in quarters of pi

\* f64 division, exact on the multiples of a quarter of pi that are divided here
FDiv(a, d) == IF d < 0 THEN -(a \div (-d)) ELSE a \div d

const_float(x) == Operand("f64", x)
const_zero == Operand("f64", 0)

get_first_param == Operand("param", 0)
get_nth_param(n) == Operand("param", n)

(***************************************************************************)
(* decompose.rs: the bodies of the decomposed gates                        *)
(***************************************************************************)
NativeGates ==
    [rxy |-> Qis(Body("rxy")), rz |-> Qis(Body("rz")), rzz |-> Qis(Body("rzz"))]

native == NativeGates

\* a function with one entry block: the built calls, then build_return(None)
Defined(name, calls) == Fn(name, NoAttrs, FALSE, <<calls \o <<Ret>>>>)

define_h_gate ==
    LET qubit == get_first_param
        pi == const_float(PI)
        half_pi == const_float(FDiv(PI, 2))
        neg_half_pi == const_float(FDiv(PI, -2))
    IN  Defined(Qis(Body("h")),
                <<Call(native.rxy, <<half_pi, neg_half_pi, qubit>>),
                  Call(native.rz, <<pi, qubit>>)>>)

define_x_gate ==
    LET qubit == get_first_param
        pi == const_float(PI)
        zero == const_zero
    IN  Defined(Qis(Body("x")), <<Call(native.rxy, <<pi, zero, qubit>>)>>)

define_y_gate ==
    LET qubit == get_first_param
        pi == const_float(PI)
        half_pi == const_float(FDiv(PI, 2))
    IN  Defined(Qis(Body("y")), <<Call(native.rxy, <<pi, half_pi, qubit>>)>>)

define_z_gate ==
    LET qubit == get_first_param
        pi == const_float(PI)
    IN  Defined(Qis(Body("z")), <<Call(native.rz, <<pi, qubit>>)>>)

define_s_gate ==
    LET qubit == get_first_param
        half_pi == const_float(FDiv(PI, 2))
    IN  Defined(Qis(Body("s")), <<Call(native.rz, <<half_pi, qubit>>)>>)

define_s_adj_gate ==
    LET qubit == get_first_param
        neg_half_pi == const_float(FDiv(PI, -2))
    IN  Defined(Qis(Adj("s")), <<Call(native.rz, <<neg_half_pi, qubit>>)>>)

define_t_gate ==
    LET qubit == get_first_param
        quarter_pi == const_float(FDiv(PI, 4))
    IN  Defined(Qis(Body("t")), <<Call(native.rz, <<quarter_pi, qubit>>)>>)

define_t_adj_gate ==
    LET qubit == get_first_param
        neg_quarter_pi == const_float(FDiv(PI, -4))
    IN  Defined(Qis(Adj("t")), <<Call(native.rz, <<neg_quarter_pi, qubit>>)>>)

\* rx(angle, qubit): the angle is the first parameter, the qubit the second
define_rx_gate ==
    LET angle == get_first_param
        qubit == get_nth_param(1)
        zero == const_zero
    IN  Defined(Qis(Body("rx")), <<Call(native.rxy, <<angle, zero, qubit>>)>>)

define_ry_gate ==
    LET angle == get_first_param
        qubit == get_nth_param(1)
        half_pi == const_float(FDiv(PI, 2))
    IN  Defined(Qis(Body("ry")), <<Call(native.rxy, <<angle, half_pi, qubit>>)>>)

define_cz_gate ==
    LET control == get_first_param
        target == get_nth_param(1)
        half_pi == const_float(FDiv(PI, 2))
        neg_half_pi == const_float(FDiv(PI, -2))
    IN  Defined(Qis(Body("cz")),
                <<Call(native.rzz, <<half_pi, control, target>>),
                  Call(native.rz, <<neg_half_pi, target>>),
                  Call(native.rz, <<neg_half_pi, control>>)>>)

\* define_cx_gate with control and target taken from the wrong parameters
define_cx_gate_swapped(fn_name) ==
    LET control == get_nth_param(1)
        target == get_first_param
        pi == const_float(PI)
        half_pi == const_float(FDiv(PI, 2))
        neg_half_pi == const_float(FDiv(PI, -2))
    IN  Defined(Qis(Body(fn_name)),
                <<Call(native.rxy, <<neg_half_pi, half_pi, target>>),
                  Call(native.rzz, <<half_pi, control, target>>),
                  Call(native.rz, <<neg_half_pi, control>>),
                  Call(native.rxy, <<half_pi, pi, target>>),
                  Call(native.rz, <<neg_half_pi, target>>)>>)

define_cx_gate(fn_name) ==
    LET control == get_first_param
        target == get_nth_param(1)
        pi == const_float(PI)
        half_pi == const_float(FDiv(PI, 2))
        neg_half_pi == const_float(FDiv(PI, -2))
    IN  Defined(Qis(Body(fn_name)),
                <<Call(native.rxy, <<neg_half_pi, half_pi, target>>),
                  Call(native.rzz, <<half_pi, control, target>>),
                  Call(native.rz, <<neg_half_pi, control>>),
                  Call(native.rxy, <<half_pi, pi, target>>),
                  Call(native.rz, <<neg_half_pi, target>>)>>)

define_ccx_gate ==
    LET control1 == get_first_param
        control2 == get_nth_param(1)
        target == get_nth_param(2)
        pi == const_float(PI)
        half_pi == const_float(FDiv(PI, 2))
        neg_half_pi == const_float(FDiv(PI, -2))
        quarter_pi == const_float(FDiv(PI, 4))
        neg_quarter_pi == const_float(FDiv(PI, -4))
        neg_three_quarter_pi == const_float(FDiv(3 * PI, -4))
        zero == const_zero
    IN  Defined(Qis(Body("ccx")),
                <<Call(native.rxy, <<pi, neg_half_pi, target>>),
                  Call(native.rzz, <<half_pi, control2, target>>),
                  Call(native.rxy, <<quarter_pi, half_pi, target>>),
                  Call(native.rzz, <<half_pi, control1, target>>),
                  Call(native.rxy, <<quarter_pi, zero, target>>),
                  Call(native.rzz, <<half_pi, control2, target>>),
                  Call(native.rxy, <<quarter_pi, neg_half_pi, target>>),
                  Call(native.rzz, <<half_pi, control1, target>>),
                  Call(native.rxy, <<pi, quarter_pi, control1>>),
                  Call(native.rxy, <<neg_three_quarter_pi, pi, target>>),
                  Call(native.rzz, <<quarter_pi, control1, control2>>),
                  Call(native.rz, <<pi, target>>),
                  Call(native.rxy, <<pi, neg_quarter_pi, control1>>),
                  Call(native.rz, <<neg_three_quarter_pi, control2>>),
                  Call(native.rz, <<quarter_pi, control1>>)>>)

(***************************************************************************)
(* add_decompositions: build the transient module, link it, inline         *)
(***************************************************************************)
AppendFn(m, f) == Append(m, f)              \* Module::add_function

FnIndex(fns, name) ==                       \* Module::get_function, 0 for None
    LET hits == {i \in 1..Len(fns) : fns[i].name = name}
    IN  IF hits = {} THEN 0 ELSE CHOOSE i \in hits : TRUE

RECURSIVE Flatten(_)
Flatten(blocks) == IF blocks = <<>> THEN <<>> ELSE Head(blocks) \o Flatten(Tail(blocks))

\* the names called by the instructions of a body
Callees(body) == {ins.fn : ins \in {i \in Range(Flatten(body)) : i.op = "call"}}

DeclareNatives ==
    /\ pc = "add_decompositions"
    /\ decompositions' = <<Decl(native.rxy), Decl(native.rz), Decl(native.rzz)>>
    /\ pc' = "define_h"
    /\ UNCHANGED <<module, tr, verdict, vvars>>

\* one step of build_decompositions: the gate function is added to the module
DefineStep(at, f, then) ==
    /\ pc = at
    /\ decompositions' = AppendFn(decompositions, f)
    /\ pc' = then
    /\ UNCHANGED <<module, tr, verdict, vvars>>

DefineHGate == DefineStep("define_h", define_h_gate, "define_x")
DefineXGate == DefineStep("define_x", define_x_gate, "define_y")
DefineYGate == DefineStep("define_y", define_y_gate, "define_z")
DefineZGate == DefineStep("define_z", define_z_gate, "define_s")
DefineSGate == DefineStep("define_s", define_s_gate, "define_s_adj")
DefineSAdjGate == DefineStep("define_s_adj", define_s_adj_gate, "define_t")
DefineTGate == DefineStep("define_t", define_t_gate, "define_t_adj")
DefineTAdjGate == DefineStep("define_t_adj", define_t_adj_gate, "define_rx")
DefineRxGate == DefineStep("define_rx", define_rx_gate, "define_ry")
DefineRyGate == DefineStep("define_ry", define_ry_gate, "define_cz")
DefineCzGate == DefineStep("define_cz", define_cz_gate, "define_cx")
DefineCxGate ==
    \/ DefineStep("define_cx", define_cx_gate("cx"), "define_cnot")
    \/ DefineStep("define_cnot", define_cx_gate("cnot"), "define_ccx")
DefineCcxGate == DefineStep("define_ccx", define_ccx_gate, "merge")

\* LLVMLinkModules2: a LinkOnceODR definition of the source module is linked
\* where the destination declares the function; it is not brought in when the
\* destination does not name it, and a definition of the destination is kept.
\* A declaration the linked bodies call is added when the destination lacks it.
LinkedBody(dest_fn, src) ==
    LET i == FnIndex(src, dest_fn.name)
    IN  IF dest_fn.body = <<>> /\ i # 0 /\ src[i].body # <<>>
        THEN [dest_fn EXCEPT !.body = src[i].body]
        ELSE dest_fn

merge_modules(dest, src) ==
    LET linked == [i \in 1..Len(dest) |-> LinkedBody(dest[i], src)]
        needed == UNION {Callees(linked[i].body) : i \in 1..Len(linked)}
        extra == SelectSeq(src, LAMBDA f : f.body = <<>> /\ f.name \in needed
                                            /\ FnIndex(dest, f.name) = 0)
    IN  linked \o extra

MergeModules ==
    /\ pc = "merge"
    /\ module' = [module EXCEPT !.fns = merge_modules(module.fns, decompositions)]
    /\ decompositions' = <<>>
    /\ pc' = "inline"
    /\ UNCHANGED <<tr, verdict, vvars>>

\* The inlining pass: a call of a function defined in the module is replaced
\* by the body of the function, the parameters bound to the arguments of the
\* call.  Which calls the pass inlines is decided by the cost model of LLVM,
\* so any set of the eligible calls may be the one inlined.  The bodies inlined
\* here are a single block of instructions that define no value.
Substitute(op, args) == IF op.kind = "param" THEN args[op.v + 1] ELSE op

InlinedBody(callee, args) ==
    LET blk == callee.body[1]
    IN  [k \in 1..(Len(blk) - 1) |->
            [blk[k] EXCEPT !.args = [j \in 1..Len(blk[k].args) |->
                                        Substitute(blk[k].args[j], args)]]]

Inlinable(fns, f, ins) ==
    /\ ins.op = "call"
    /\ FnIndex(fns, ins.fn) # 0
    /\ FnIndex(fns, ins.fn) # f
    /\ LET callee == fns[FnIndex(fns, ins.fn)]
       IN  /\ Len(callee.body) = 1
           /\ callee.body[1][Len(callee.body[1])] = Ret
           /\ \A k \in 1..Len(callee.body[1]) : callee.body[1][k].id = 0

CallSites(fns) ==
    UNION {UNION {{<<f, b, i>> : i \in {k \in DOMAIN fns[f].body[b] :
                                            Inlinable(fns, f, fns[f].body[b][k])}} :
                  b \in DOMAIN fns[f].body} :
           f \in DOMAIN fns}

RECURSIVE InlineBlock(_, _, _, _, _, _)
InlineBlock(fns, callees, f, b, i, chosen) ==
    LET blk == fns[f].body[b]
    IN  IF i > Len(blk) THEN <<>>
        ELSE (IF <<f, b, i>> \in chosen
              THEN InlinedBody(callees[FnIndex(callees, blk[i].fn)], blk[i].args)
              ELSE <<blk[i]>>)
             \o InlineBlock(fns, callees, f, b, i + 1, chosen)

InlineFunction(fns, callees, f, chosen) ==
    [fns[f] EXCEPT !.body = [b \in 1..Len(fns[f].body) |->
                                InlineBlock(fns, callees, f, b, 1, chosen)]]

DecomposedNames ==
    {Qis(Body(g)) : g \in {"h", "x", "y", "z", "s", "t", "rx", "ry", "cz", "cx",
                           "cnot", "ccx"}}
    \cup {Qis(Adj("s")), Qis(Adj("t"))}

\* a LinkOnceODR definition that nothing calls any more is deleted by the pass
DeadDefinition(fns, f) ==
    /\ f.body # <<>>
    /\ f.name \in DecomposedNames
    /\ \A i \in 1..Len(fns) : f.name \notin Callees(fns[i].body)

\* callees are inlined into the other functions first, then into the entry
\* function
function_inlining_pass(fns, chosen) ==
    LET e == find_entry_function(fns)
        first == [f \in 1..Len(fns) |->
                     IF f = e THEN fns[f] ELSE InlineFunction(fns, fns, f, chosen)]
        second == [f \in 1..Len(fns) |->
                     IF f = e THEN InlineFunction(first, first, f, chosen) ELSE first[f]]
    IN  SelectSeq(second, LAMBDA f : ~DeadDefinition(second, f))

\* The pass is a function of the module it is run on: on a module it has
\* been run on in an earlier call of the process it decides as it did then.
Decided(fns) == {d \in Range(host.inlined) : d.on = fns}

RunInliner ==
    /\ pc = "inline"
    /\ \E chosen \in SUBSET CallSites(module.fns) :
          /\ \A d \in Decided(module.fns) : d.chosen = chosen
          /\ module' = [module EXCEPT !.fns = function_inlining_pass(module.fns, chosen)]
          /\ host' = IF Decided(module.fns) # {} \/ host.bitcode = NoModule THEN host
                     ELSE [host EXCEPT !.inlined =
                              Append(@, [chosen |-> chosen, on |-> module.fns])]
    /\ pc' = "verify_decompositions"
    /\ UNCHANGED <<decompositions, tr, verdict, vmod, errors, run, unit, process>>

\* Module::verify, as far as the translation can break a module: every
\* block ends in its one terminator, every called function is in the
\* module, and every value is defined where it dominates its uses
Terminators == {"ret", "br", "unreachable"}

WellFormedBlock(block) ==
    /\ block # <<>>
    /\ \A i \in 1..Len(block) : (block[i].op \in Terminators) <=> (i = Len(block))

Successors(body, b) ==
    {op.v : op \in {o \in Range(body[b][Len(body[b])].args) : o.kind = "block"}}

RECURSIVE ReachableAvoiding(_, _, _)
\* the blocks reached from the blocks seen on paths that do not enter avoid
ReachableAvoiding(body, seen, avoid) ==
    LET more == (UNION {Successors(body, b) : b \in seen}) \ ({avoid} \cup seen)
    IN  IF more = {} THEN seen ELSE ReachableAvoiding(body, seen \cup more, avoid)

Reachable(body) == ReachableAvoiding(body, {1}, 0)

BlockDominates(body, d, b) ==
    \/ d = b
    \/ d = 1
    \/ b \notin ReachableAvoiding(body, {1}, d)

Defines(body, id) ==
    UNION {{<<b, i>> : i \in {j \in 1..Len(body[b]) : body[b][j].id = id}} :
           b \in 1..Len(body)}

UseDominated(body, b, i, id) ==
    \E d \in Defines(body, id) :
        IF d[1] = b THEN d[2] < i ELSE BlockDominates(body, d[1], b)

VerifyFunction(fns, f) ==
    /\ \A b \in 1..Len(f.body) : WellFormedBlock(f.body[b])
    /\ \A b \in 1..Len(f.body) : \A i \in 1..Len(f.body[b]) :
          LET ins == f.body[b][i]
          IN  /\ ins.op = "call" => FnIndex(fns, ins.fn) # 0
              /\ b \in Reachable(f.body) =>
                    \A a \in 1..Len(ins.args) :
                        ins.args[a].kind = "ssa" => UseDominated(f.body, b, i, ins.args[a].v)

verify(fns) == \A f \in 1..Len(fns) : VerifyFunction(fns, fns[f])

\* add_decompositions returns the result of module.verify(), and
\* qir_to_qis_core drops it (let _ =): tr.decomposed is the dropped Result
VerifyDecompositions ==
    /\ pc = "verify_decompositions"
    /\ tr' = [tr EXCEPT !.decomposed = IF verify(module.fns) THEN Ok
                                       ELSE Err(<<"Module verification failed: ">>)]
    /\ pc' = "find_entry"
    /\ UNCHANGED <<module, decompositions, verdict, vvars>>

(***************************************************************************)
(* qir_to_qis_core: entry function, qubit array                            *)
(*                                                                         *)
(* The contents of a global string are bytes, kept as their values.        *)
(***************************************************************************)
Colon == 58                                  \* ':'
TagUSER == <<85, 83, 69, 82>>               \* RESULT_TAG "USER"
TagEXIT == <<69, 88, 73, 84>>
TyRESULT == <<82, 69, 83, 85, 76, 84>>
TyBOOL == <<66, 79, 79, 76>>
TyINT == <<73, 78, 84>>
TyFLOAT == <<70, 76, 79, 65, 84>>
TyQIRARRAY == <<81, 73, 82, 65, 82, 82, 65, 89>>
TyQIRTUPLE == <<81, 73, 82, 84, 85, 80, 76, 69>>
\* "No more qubits available to allocate."
NoMoreQubits ==
    <<78, 111, 32, 109, 111, 114, 101, 32, 113, 117, 98, 105, 116, 115, 32, 97, 118, 97, 105>> \o
    <<108, 97, 98, 108, 101, 32, 116, 111, 32, 97, 108, 108, 111, 99, 97, 116, 101, 46>>

EXIT_CODE == 1001
U64_MAX == -1                                \* u64::MAX as the i64 bit pattern

INIT_QARRAY_FN == <<"qir", U, "qis.init", U, "qubit">>
LOAD_QUBIT_FN == <<"qir", U, "qis.load", U, "qubit">>

Global(name, linkage, constant, i8, init) ==
    [name |-> name, linkage |-> linkage, constant |-> constant, i8 |-> i8, init |-> init]

GlobalIndex(globals, name) ==                \* Module::get_global, 0 for None
    LET hits == {i \in 1..Len(globals) : globals[i].name = name}
    IN  IF hits = {} THEN 0 ELSE CHOOSE i \in hits : TRUE

Instr(op, args, id) == [op |-> op, fn |-> <<>>, args |-> args, id |-> id]

\* create_cl_str that takes a string of 256 bytes
create_cl_str_inclusive(tag, ty, label) ==
    LET new_bytes == tag \o <<Colon>> \o ty \o <<Colon>> \o label
        new_len == Len(new_bytes)
    IN  IF new_len > 256
        THEN [ok |-> FALSE, msg |-> <<"Constant string too long: ", ToString(new_len), " >= 256">>,
              bytes |-> <<>>]
        ELSE [ok |-> TRUE, msg |-> <<>>, bytes |-> <<new_len>> \o new_bytes]

\* create_cl_str with the length byte counted in the length
create_cl_str_counting_itself(tag, ty, label) ==
    LET new_bytes == tag \o <<Colon>> \o ty \o <<Colon>> \o label
        new_len == Len(new_bytes) + 1
    IN  IF new_len >= 256
        THEN [ok |-> FALSE, msg |-> <<"Constant string too long: ", ToString(new_len), " >= 256">>,
              bytes |-> <<>>]
        ELSE [ok |-> TRUE, msg |-> <<>>, bytes |-> <<new_len>> \o new_bytes]

\* create_cl_str: "TAG:TYPE:LABEL" behind a byte holding its length
create_cl_str(tag, ty, label) ==
    LET new_bytes == tag \o <<Colon>> \o ty \o <<Colon>> \o label
        new_len == Len(new_bytes)
    IN  IF new_len >= 256
        THEN [ok |-> FALSE, msg |-> <<"Constant string too long: ", ToString(new_len), " >= 256">>,
              bytes |-> <<>>]
        ELSE [ok |-> TRUE, msg |-> <<>>, bytes |-> <<new_len>> \o new_bytes]

\* get_or_create_function: the functions of the module with a declaration
\* of each of the names, in order, that the module does not have yet
RECURSIVE get_or_create_functions(_, _)
get_or_create_functions(fns, names) ==
    IF names = <<>> THEN fns
    ELSE get_or_create_functions(
             IF FnIndex(fns, Head(names)) = 0 THEN Append(fns, Decl(Head(names))) ELSE fns,
             Tail(names))

FindEntry ==
    /\ pc = "find_entry"
    /\ LET e == find_entry_function(module.fns)
       IN  IF e = 0
           THEN /\ verdict' = Err(<<"Failed to find entry function in QIR module: ",
                                    "No entry function found">>)
                /\ pc' = "done"
                /\ UNCHANGED <<module, tr>>
           ELSE LET old == module.fns[e].name
                    new_name == <<U, U, U, "user", U, "qir", U>> \o old
                    \* the calls of the function follow its new name
                    renamed(ins) == IF ins.op = "call" /\ ins.fn = old
                                    THEN [ins EXCEPT !.fn = new_name] ELSE ins
                    fix(f) == [f EXCEPT !.body = [b \in 1..Len(f.body) |->
                                  [i \in 1..Len(f.body[b]) |-> renamed(f.body[b][i])]]]
                IN  /\ module' = [module EXCEPT !.fns =
                           [i \in 1..Len(module.fns) |->
                               IF i = e THEN [fix(module.fns[i]) EXCEPT !.name = new_name]
                               ELSE fix(module.fns[i])]]
                    /\ tr' = [tr EXCEPT !.entry = e]
                    /\ pc' = "create_qubit_array"
                    /\ UNCHANGED verdict
    /\ UNCHANGED <<decompositions, vvars>>

\* convert.rs get_required_num_qubits
get_required_num_qubits(function) ==
    IF get_string_attribute(function, "required_num_qubits").p
    THEN ParseU32(get_string_attribute(function, "required_num_qubits").v)
    ELSE None

QisQs == <<"qis", U, "qs">>

QubitElem(i) == Operand("qis_qs", i)     \* the address of qis_qs[i], a constant GEP

\* add_init_qubit_fn with process_allocation_error: the blocks entry,
\* qalloc_fail, qalloc_ok of qir_qis.init_qubit(i64 %index)
init_qubit_fn(err_global) ==
    Fn(INIT_QARRAY_FN, NoAttrs, FALSE,
       << <<CallValue(Qtm(<<"qalloc">>), <<>>, 1),
            Instr("icmp", <<Operand("ssa", 1), Operand("i64", U64_MAX)>>, 2),
            Instr("br", <<Operand("ssa", 2), Operand("block", 2), Operand("block", 3)>>, 0)>>,
          <<Call(<<"panic">>, <<Operand("i32", EXIT_CODE), Operand("global", err_global)>>),
            Instr("unreachable", <<>>, 0)>>,
          <<Call(Qtm(<<"reset">>), <<Operand("ssa", 1)>>),
            Instr("gep", <<QubitElem(0), Operand("param", 0)>>, 3),
            Instr("store", <<Operand("ssa", 3), Operand("ssa", 1)>>, 0),
            Ret>> >>)

\* add_load_qubit_fn: i64 qir_qis.load_qubit(%Qubit* %q)
load_qubit_fn ==
    Fn(LOAD_QUBIT_FN, NoAttrs, FALSE,
       << <<Instr("ptrtoint", <<Operand("param", 0)>>, 1),
            Instr("gep", <<QubitElem(0), Operand("ssa", 1)>>, 2),
            Instr("load", <<Operand("ssa", 2)>>, 3),
            Instr("ret", <<Operand("ssa", 3)>>, 0)>> >>)

Zeros(n) == [i \in 1..n |-> 0]

\* create_qubit_array counting the qubits from one
create_qubit_array_from_one(m, e) ==
    LET entry_fn == m.fns[e]
        num_qubits == get_required_num_qubits(entry_fn)
        n == DecimalValue(num_qubits.val)
        with_array == Append(m.globals, Global(QisQs, "private", FALSE, FALSE, Zeros(n)))
        msg_bytes == create_cl_str(TagEXIT, TyINT, NoMoreQubits)
        with_msg ==
            IF GlobalIndex(with_array, <<"e", U, "qalloc", U, "fail">>) # 0 THEN with_array
            ELSE Append(with_array, Global(<<"e", U, "qalloc", U, "fail">>, "private",
                                           TRUE, TRUE, msg_bytes.bytes))
        err_global == GlobalIndex(with_msg, <<"e", U, "qalloc", U, "fail">>)
        init_calls == [i \in 1..n |-> Call(INIT_QARRAY_FN, <<Operand("i64", i)>>)]
        with_prologue ==
            [entry_fn EXCEPT !.body[1] = init_calls \o entry_fn.body[1]]
        fns1 == [m.fns EXCEPT ![e] = with_prologue]
        fns2 == get_or_create_functions(Append(fns1, init_qubit_fn(err_global)),
                                        <<Qtm(<<"qalloc">>), <<"panic">>, Qtm(<<"reset">>)>>)
        fns3 == Append(fns2, load_qubit_fn)
    IN  IF ~num_qubits.some
        THEN [m |-> m, res |-> Err(<<"Missing required_num_qubits attribute">>)]
        ELSE IF entry_fn.body = <<>>
        THEN [m |-> [m EXCEPT !.globals = with_array],
              res |-> Err(<<"Entry function has no basic blocks">>)]
        ELSE IF entry_fn.body[1] = <<>>
        THEN [m |-> [m EXCEPT !.globals = with_array],
              res |-> Err(<<"Entry block has no instructions">>)]
        ELSE [m |-> [fns |-> fns3, globals |-> with_msg], res |-> Ok]

\* create_qubit_array, as the module it leaves and the Result it returns
create_qubit_array(m, e) ==
    LET entry_fn == m.fns[e]
        num_qubits == get_required_num_qubits(entry_fn)
        n == DecimalValue(num_qubits.val)
        with_array == Append(m.globals, Global(QisQs, "private", FALSE, FALSE, Zeros(n)))
        msg_bytes == create_cl_str(TagEXIT, TyINT, NoMoreQubits)
        with_msg ==
            IF GlobalIndex(with_array, <<"e", U, "qalloc", U, "fail">>) # 0 THEN with_array
            ELSE Append(with_array, Global(<<"e", U, "qalloc", U, "fail">>, "private",
                                           TRUE, TRUE, msg_bytes.bytes))
        err_global == GlobalIndex(with_msg, <<"e", U, "qalloc", U, "fail">>)
        init_calls == [i \in 1..n |-> Call(INIT_QARRAY_FN, <<Operand("i64", i - 1)>>)]
        with_prologue ==
            [entry_fn EXCEPT !.body[1] = init_calls \o entry_fn.body[1]]
        fns1 == [m.fns EXCEPT ![e] = with_prologue]
        fns2 == get_or_create_functions(Append(fns1, init_qubit_fn(err_global)),
                                        <<Qtm(<<"qalloc">>), <<"panic">>, Qtm(<<"reset">>)>>)
        fns3 == Append(fns2, load_qubit_fn)
    IN  IF ~num_qubits.some
        THEN [m |-> m, res |-> Err(<<"Missing required_num_qubits attribute">>)]
        ELSE IF entry_fn.body = <<>>
        THEN [m |-> [m EXCEPT !.globals = with_array],
              res |-> Err(<<"Entry function has no basic blocks">>)]
        ELSE IF entry_fn.body[1] = <<>>
        THEN [m |-> [m EXCEPT !.globals = with_array],
              res |-> Err(<<"Entry block has no instructions">>)]
        ELSE [m |-> [fns |-> fns3, globals |-> with_msg], res |-> Ok]

CreateQubitArray ==
    /\ pc = "create_qubit_array"
    /\ LET r == create_qubit_array(module, tr.entry)
       IN  /\ module' = r.m
           /\ IF r.res.ok
              THEN /\ pc' = "convert_globals"
                   /\ UNCHANGED verdict
              ELSE /\ pc' = "done"
                   /\ verdict' = r.res
    /\ UNCHANGED <<decompositions, tr, vvars>>

(***************************************************************************)
(* process_entry_function: globals and result variables                    *)
(***************************************************************************)
\* from_utf8 on bytes of which all below 128 are ASCII: a byte of 128 or more
\* followed by an ASCII byte, or ending the string, is not UTF-8
IsUtf8(bytes) == \A i \in 1..Len(bytes) : bytes[i] < 128

RECURSIVE trim_end_nul(_)
trim_end_nul(bytes) ==                       \* trim_end_matches('\0')
    IF bytes # <<>> /\ bytes[Len(bytes)] = 0
    THEN trim_end_nul(SubSeq(bytes, 1, Len(bytes) - 1)) ELSE bytes

\* get_string_label: [ok, msg, label]
get_string_label(g) ==
    IF Len(g.init) = 1 THEN [ok |-> TRUE, msg |-> <<>>, label |-> <<>>]
    ELSE IF ~IsUtf8(g.init)
    THEN [ok |-> FALSE, msg |-> <<"Invalid UTF-8: ">>, label |-> <<>>]
    ELSE [ok |-> TRUE, msg |-> <<>>, label |-> trim_end_nul(g.init)]

\* Module::add_global: LLVM gives a fresh name when the name is taken
FreshGlobalName(globals, name) ==
    IF GlobalIndex(globals, name) = 0 THEN name
    ELSE name \o <<".", ToString(Len(globals))>>

\* build_result_global and the global made of it: [ok, msg, g]
build_result_global(globals, label, old_name, ty) ==
    LET new_cl_str_bytes == create_cl_str(TagUSER, ty, label)
        new_name == <<"res", U>> \o old_name
    IN  [g |-> Global(FreshGlobalName(globals, new_name), "private", TRUE, TRUE,
                      new_cl_str_bytes.bytes),
         ok |-> new_cl_str_bytes.ok, msg |-> new_cl_str_bytes.msg]

IsLabelGlobal(g) == g.linkage \in {"internal", "private"} /\ g.constant /\ g.i8

\* translate_global's old_global_name: the printed global, "@name = linkage
\* constant [N x i8] c"..."", cut at its last '=', then at the last space
\* before it, then after the last '@'; strings hold no space and no '@'
Equals == 61                                 \* '='
old_global_name(g) ==
    IF Equals \in Range(g.init)
    THEN g.name \o <<" = ", g.linkage, " constant [", ToString(Len(g.init)), " x i8]">>
    ELSE g.name

\* a lookup that takes the entry the table's iteration gives first
MapIndex_first_stored(mapping, key) ==
    LET hits == {i \in 1..Len(mapping) : mapping[i].key = key}
    IN  IF hits = {} THEN 0 ELSE 1

\* global_mapping: a HashMap from names to globals of the module, kept as
\* the sequence of its entries
MapIndex(mapping, key) ==
    LET hits == {i \in 1..Len(mapping) : mapping[i].key = key}
    IN  IF hits = {} THEN 0 ELSE CHOOSE i \in hits : TRUE

MapHas(mapping, key) == MapIndex(mapping, key) # 0

MapGet(mapping, key) == mapping[MapIndex(mapping, key)].g

MapInsert(mapping, key, g) ==
    IF MapHas(mapping, key)
    THEN [mapping EXCEPT ![MapIndex(mapping, key)] = [g |-> g, key |-> key]]
    ELSE Append(mapping, [g |-> g, key |-> key])

RECURSIVE translate_globals(_, _, _, _)
\* convert_globals: translate_global on each of the old globals from index i
\* on; [ok, msg, globals, mapping]
translate_globals(old, globals, mapping, i) ==
    IF i > Len(old) THEN [ok |-> TRUE, msg |-> <<>>, globals |-> globals, mapping |-> mapping]
    ELSE IF ~IsLabelGlobal(old[i]) THEN translate_globals(old, globals, mapping, i + 1)
    ELSE LET label == get_string_label(old[i])
             old_name == old_global_name(old[i])
             built == build_result_global(globals, label.label, old_name, TyRESULT)
         IN  IF ~label.ok
             THEN [ok |-> FALSE, msg |-> label.msg, globals |-> globals, mapping |-> mapping]
             ELSE IF ~built.ok
             THEN [ok |-> FALSE, msg |-> built.msg, globals |-> globals, mapping |-> mapping]
             ELSE translate_globals(old, Append(globals, built.g),
                                    MapInsert(mapping, old_name, Len(globals) + 1), i + 1)

convert_globals(globals) == translate_globals(globals, globals, <<>>, 1)

NoResult == [some |-> FALSE, fut |-> 0, bool |-> 0]

\* get_result_vars
get_result_vars(entry_fn) ==
    LET a == get_string_attribute(entry_fn, "required_num_results")
        num_results == IF a.p THEN ParseU32(a.v) ELSE None
    IN  IF ~num_results.some
        THEN [vars |-> <<>>, ok |-> FALSE, msg |-> <<"Missing required_num_results">>]
        ELSE [vars |-> [i \in 1..DecimalValue(num_results.val) |-> NoResult], ok |-> TRUE,
              msg |-> <<>>]

\* values are named by numbers; a new value takes a number behind all in use
MaxId(fns) ==
    LET ids == UNION {{ins.id : ins \in Range(Flatten(fns[f].body))} : f \in 1..Len(fns)}
               \cup {0}
    IN  CHOOSE m \in ids : \A k \in ids : k <= m

\* A HashMap keeps its entries in the order its hasher gives, which is
\* drawn anew for each map: here the order of insertion or its reverse.
Stored(hasher, mapping) ==
    IF hasher = 0 THEN mapping
    ELSE [i \in 1..Len(mapping) |-> mapping[Len(mapping) + 1 - i]]

\* the start of process_entry_function: global_mapping and result_ssa
ConvertGlobals ==
    /\ pc = "convert_globals"
    /\ LET converted == convert_globals(module.globals)
           results == get_result_vars(module.fns[tr.entry])
       IN  IF ~converted.ok
           THEN /\ verdict' = Err(converted.msg)
                /\ pc' = "done"
                /\ UNCHANGED <<module, tr>>
           ELSE IF ~results.ok
           THEN /\ verdict' = Err(results.msg)
                /\ pc' = "done"
                /\ module' = [module EXCEPT !.globals = converted.globals]
                /\ UNCHANGED tr
           ELSE /\ module' = [module EXCEPT !.globals = converted.globals]
                /\ tr' = [tr EXCEPT !.global_mapping = Stored(tr.hasher, converted.mapping),
                                    !.result_ssa = results.vars,
                                    !.fn = tr.entry, !.bb = 1, !.ip = 1,
                                    !.next_id = MaxId(module.fns) + 1]
                /\ pc' = "process_entry"
                /\ UNCHANGED verdict
    /\ UNCHANGED <<decompositions, vvars>>

(***************************************************************************)
(* The call handlers.  A handler is the Effect it has on the instruction   *)
(* it is given: the Result it returns, the instructions it builds before   *)
(* the instruction, whether it erases the instruction, the value that      *)
(* replaces the instruction's uses (0 for none), the functions it declares,*)
(* the globals it adds, and the global_mapping and result_ssa it leaves.   *)
(* A panic is a failed Result of its own.                                  *)
(***************************************************************************)
Panic(m) == [ok |-> FALSE, msg |-> <<"panicked: ">> \o m]

Ssa(id) == Operand("ssa", id)

NoEffect(t) ==
    [global_mapping |-> t.global_mapping, result_ssa |-> t.result_ssa, res |-> Ok,
     emit |-> <<>>, erase |-> FALSE, rauw |-> 0, declare |-> <<>>, new_globals |-> <<>>]

Fail(t, res) == [NoEffect(t) EXCEPT !.res = res]

\* a pointer made from a constant integer
IsConstPtr(op) == op.kind \in {"qubit", "result"}

RECURSIVE Numeral(_)
\* the decimal digits LLVM prints for the integer n
Numeral(n) ==
    IF n < 10 THEN <<Digits[n + 1]>>
    ELSE Numeral(n \div 10) \o <<Digits[(n % 10) + 1]>>

\* PointerValue::is_null: the constant null pointer, which is the pointer
\* made from the integer 0
is_null(op) == op.kind = "null" \/ (IsConstPtr(op) /\ op.v = 0)

\* PointerValue::to_string: the text of the operand, the number of a constant
\* pointer digit by digit; a value that is no constant prints as its kind
to_string(op) ==
    IF is_null(op) THEN <<"ptr null">>
    ELSE IF IsConstPtr(op)
    THEN <<"ptr ", "inttoptr (i64 ">> \o Numeral(op.v) \o <<" ", "to ptr)">>
    ELSE <<op.kind>>

\* get_idx_from_inttoptr that takes the text up to the end of the string
get_idx_from_inttoptr_to_end(ir_string) ==
    LET starts == {i \in 1..Len(ir_string) : ir_string[i] = "inttoptr (i64 "}
        start == CHOOSE i \in starts : \A j \in starts : i <= j
        num_str == SubSeq(ir_string, start + 1, Len(ir_string))
    IN  IF starts # {} /\ num_str # <<>>
           /\ \A i \in 1..Len(num_str) : IsDigit(num_str[i])
        THEN [idx |-> DecimalValue(num_str), ok |-> TRUE, msg |-> <<>>]
        ELSE [idx |-> 0, ok |-> FALSE,
              msg |-> <<"Cannot extract qubit index from: ">> \o ir_string]

\* get_idx_from_inttoptr: the text between the first "inttoptr (i64 " and the
\* next space, parsed as an unsigned decimal number
get_idx_from_inttoptr(ir_string) ==
    LET starts == {i \in 1..Len(ir_string) : ir_string[i] = "inttoptr (i64 "}
        start == CHOOSE i \in starts : \A j \in starts : i <= j
        rest == SubSeq(ir_string, start + 1, Len(ir_string))
        ends == {i \in 1..Len(rest) : rest[i] = " "}
        end == CHOOSE i \in ends : \A j \in ends : i <= j
        num_str == SubSeq(rest, 1, end - 1)
    IN  IF starts # {} /\ ends # {} /\ num_str # <<>>
           /\ \A i \in 1..Len(num_str) : IsDigit(num_str[i])
        THEN [idx |-> DecimalValue(num_str), ok |-> TRUE, msg |-> <<>>]
        ELSE [idx |-> 0, ok |-> FALSE,
              msg |-> <<"Cannot extract qubit index from: ">> \o ir_string]

\* get_index: 0 for the null pointer, else the number in the operand's text
get_index(op) ==
    IF is_null(op) THEN [idx |-> 0, ok |-> TRUE, msg |-> <<>>]
    ELSE get_idx_from_inttoptr(to_string(op))

\* replace_native_call that loads the handles and builds no call of the
\* native function
replace_native_call_dropped(ins, t, fn_name, qubits, angles) ==
    [NoEffect(t) EXCEPT
        !.emit = [i \in 1..Len(qubits) |->
                     CallValue(LOAD_QUBIT_FN, <<qubits[i]>>, t.next_id + i - 1)],
        !.erase = TRUE,
        !.declare = <<fn_name>>]

\* replace_native_call as replace_rxy_call, replace_rz_call and
\* replace_rzz_call use it: a call of qir_qis.load_qubit for each qubit
\* operand, then the call of the native function on the handles and angles
replace_native_call(ins, t, fn_name, qubits, angles) ==
    LET loads == [i \in 1..Len(qubits) |->
                     CallValue(LOAD_QUBIT_FN, <<qubits[i]>>, t.next_id + i - 1)]
        handles == [i \in 1..Len(qubits) |-> Ssa(t.next_id + i - 1)]
    IN  [NoEffect(t) EXCEPT !.emit = Append(loads, Call(fn_name, handles \o angles)),
                            !.erase = TRUE,
                            !.declare = <<fn_name>>]

replace_rxy_call(ins, t) ==
    replace_native_call(ins, t, Qtm(<<"rxy">>), <<ins.args[3]>>, <<ins.args[1], ins.args[2]>>)

replace_rz_call(ins, t) ==
    replace_native_call(ins, t, Qtm(<<"rz">>), <<ins.args[2]>>, <<ins.args[1]>>)

\* replace_rzz_call taking the two qubits in the other order
replace_rzz_call_swapped(ins, t) ==
    replace_native_call(ins, t, Qtm(<<"rzz">>), <<ins.args[3], ins.args[2]>>, <<ins.args[1]>>)

replace_rzz_call(ins, t) ==
    replace_native_call(ins, t, Qtm(<<"rzz">>), <<ins.args[2], ins.args[3]>>, <<ins.args[1]>>)

\* handle_mz_call that leaves a cell that holds a future as it is
handle_mz_call_first_only(ins, t) ==
    LET index == get_index(ins.args[1])
        result_idx == get_index(ins.args[2])
        q_handle == t.next_id
        meas == t.next_id + 1
        reset == IF ins.fn = Qis(Body("mresetz"))
                 THEN <<Call(Qtm(<<"reset">>), <<Ssa(q_handle)>>)>> ELSE <<>>
    IN  IF ~index.ok THEN Fail(t, Err(index.msg))
        ELSE IF ~result_idx.ok THEN Fail(t, Err(result_idx.msg))
        ELSE IF result_idx.idx >= Len(t.result_ssa)
        THEN Fail(t, Panic(<<"index out of bounds">>))
        ELSE [NoEffect(t) EXCEPT
                 !.emit = <<Instr("load", <<QubitElem(index.idx)>>, q_handle),
                            CallValue(Qtm(<<"lazy", U, "measure">>), <<Ssa(q_handle)>>, meas)>>
                          \o reset,
                 !.erase = TRUE,
                 !.declare = <<Qtm(<<"lazy", U, "measure">>)>> \o
                             (IF reset = <<>> THEN <<>> ELSE <<Qtm(<<"reset">>)>>),
                 !.result_ssa[result_idx.idx + 1] =
                     IF @.some THEN @ ELSE [some |-> TRUE, fut |-> meas, bool |-> 0]]

handle_mz_call(ins, t) ==
    LET index == get_index(ins.args[1])
        result_idx == get_index(ins.args[2])
        q_handle == t.next_id
        meas == t.next_id + 1
        reset == IF ins.fn = Qis(Body("mresetz"))
                 THEN <<Call(Qtm(<<"reset">>), <<Ssa(q_handle)>>)>> ELSE <<>>
    IN  IF ~index.ok THEN Fail(t, Err(index.msg))
        ELSE IF ~result_idx.ok THEN Fail(t, Err(result_idx.msg))
        ELSE IF result_idx.idx >= Len(t.result_ssa)
        THEN Fail(t, Panic(<<"index out of bounds">>))
        ELSE [NoEffect(t) EXCEPT
                 !.emit = <<Instr("load", <<QubitElem(index.idx)>>, q_handle),
                            CallValue(Qtm(<<"lazy", U, "measure">>), <<Ssa(q_handle)>>, meas)>>
                          \o reset,
                 !.erase = TRUE,
                 !.declare = <<Qtm(<<"lazy", U, "measure">>)>> \o
                             (IF reset = <<>> THEN <<>> ELSE <<Qtm(<<"reset">>)>>),
                 !.result_ssa[result_idx.idx + 1] = [some |-> TRUE, fut |-> meas, bool |-> 0]]

handle_reset_call(ins, t) ==
    [NoEffect(t) EXCEPT
        !.emit = <<CallValue(LOAD_QUBIT_FN, <<ins.args[1]>>, t.next_id),
                   Call(Qtm(<<"reset">>), <<Ssa(t.next_id)>>)>>,
        !.erase = TRUE,
        !.declare = <<Qtm(<<"reset">>)>>]

handle_qis_call(ins, t) ==
    CASE ins.fn = Qis(Body("rxy")) -> replace_rxy_call(ins, t)
      [] ins.fn = Qis(Body("rz")) -> replace_rz_call(ins, t)
      [] ins.fn = Qis(Body("rzz")) -> replace_rzz_call(ins, t)
      [] ins.fn = Qis(Body("u1q")) -> replace_rxy_call(ins, t)
      [] ins.fn \in {Qis(Body("mz")), Qis(Body("m")), Qis(Body("mresetz"))} ->
            handle_mz_call(ins, t)
      [] ins.fn = Qis(Body("reset")) -> handle_reset_call(ins, t)
      [] OTHER -> Fail(t, Err(<<"Unsupported QIR QIS function: ">> \o ins.fn))

\* parse_gep: the name of the global a pointer operand is made of
parse_gep(globals, op) ==
    CASE op.kind = "global" -> [name |-> globals[op.v].name, ok |-> TRUE, msg |-> <<>>]
      [] op.kind \in {"qubit", "result", "ssa", "param", "null"} ->
            [name |-> <<>>, ok |-> FALSE,
             msg |-> <<"Pointer does not reference a global value: ", op.kind,
                       ", perhaps output label is missing.">>]
      [] OTHER -> [name |-> <<>>, ok |-> FALSE, msg |-> <<"GEP is not a pointer value">>]

\* add_print_call: [ok, msg, call]; the tag is passed by the address of its
\* first byte and by its length without the length byte
add_print_call(globals, new_global, print_fn, val) ==
    IF Len(globals[new_global].init) = 0
    THEN [ok |-> FALSE, msg |-> <<"Array length must be at least 1">>, call |-> Ret]
    ELSE [ok |-> TRUE, msg |-> <<>>,
          call |-> Call(print_fn, <<Operand("global", new_global),
                                    Operand("i64", Len(globals[new_global].init) - 1), val>>)]

\* handle_read_result_call without the reuse of the value read before
handle_read_result_call_uncached(ins, t, globals) ==
    LET result_idx == get_index(ins.args[1])
        slot == t.result_ssa[result_idx.idx + 1]
        cached == FALSE
        bool_val == IF cached THEN slot.bool ELSE t.next_id
        reads == IF cached THEN <<>>
                 ELSE <<CallValue(Qtm(<<"read", U, "future", U, "bool">>),
                                  <<Ssa(slot.fut)>>, bool_val),
                        Call(Qtm(<<"dec", U, "future", U, "refcount">>), <<Ssa(slot.fut)>>)>>
        read_fns == IF cached THEN <<>>
                    ELSE <<Qtm(<<"read", U, "future", U, "bool">>),
                           Qtm(<<"dec", U, "future", U, "refcount">>)>>
        after_read == [NoEffect(t) EXCEPT
                          !.emit = reads, !.declare = read_fns, !.erase = TRUE,
                          !.result_ssa[result_idx.idx + 1] = [slot EXCEPT !.bool = bool_val]]
        old_global == parse_gep(globals, ins.args[2])
        new_global == MapGet(t.global_mapping, old_global.name)
        print == add_print_call(globals, new_global, <<"print", U, "bool">>, Ssa(bool_val))
    IN  IF ~result_idx.ok THEN Fail(t, Err(result_idx.msg))
        ELSE IF result_idx.idx >= Len(t.result_ssa)
        THEN Fail(t, Panic(<<"index out of bounds">>))
        ELSE IF ~slot.some THEN Fail(t, Err(<<"Expected measurement handle">>))
        ELSE IF ins.fn = Rt(<<"read", U, "result">>)
        THEN [after_read EXCEPT !.rauw = bool_val]
        ELSE IF ~old_global.ok THEN Fail(t, Err(old_global.msg))
        ELSE IF ~MapHas(t.global_mapping, old_global.name)
        THEN Fail(t, Panic(<<"key not found in global_mapping">>))
        ELSE IF ~print.ok THEN Fail(t, Err(print.msg))
        ELSE [after_read EXCEPT !.emit = Append(reads, print.call),
                                !.declare = Append(read_fns, <<"print", U, "bool">>)]

\* handle_read_result_call that reads the cell without asking whether it
\* holds a future
handle_read_result_call_unchecked(ins, t, globals) ==
    LET result_idx == get_index(ins.args[1])
        slot == t.result_ssa[result_idx.idx + 1]
        cached == slot.bool # 0
        bool_val == IF cached THEN slot.bool ELSE t.next_id
        reads == IF cached THEN <<>>
                 ELSE <<CallValue(Qtm(<<"read", U, "future", U, "bool">>),
                                  <<Ssa(slot.fut)>>, bool_val),
                        Call(Qtm(<<"dec", U, "future", U, "refcount">>), <<Ssa(slot.fut)>>)>>
        read_fns == IF cached THEN <<>>
                    ELSE <<Qtm(<<"read", U, "future", U, "bool">>),
                           Qtm(<<"dec", U, "future", U, "refcount">>)>>
        after_read == [NoEffect(t) EXCEPT
                          !.emit = reads, !.declare = read_fns, !.erase = TRUE,
                          !.result_ssa[result_idx.idx + 1] = [slot EXCEPT !.bool = bool_val]]
        old_global == parse_gep(globals, ins.args[2])
        new_global == MapGet(t.global_mapping, old_global.name)
        print == add_print_call(globals, new_global, <<"print", U, "bool">>, Ssa(bool_val))
    IN  IF ~result_idx.ok THEN Fail(t, Err(result_idx.msg))
        ELSE IF result_idx.idx >= Len(t.result_ssa)
        THEN Fail(t, Panic(<<"index out of bounds">>))
        ELSE IF ins.fn = Rt(<<"read", U, "result">>)
        THEN [after_read EXCEPT !.rauw = bool_val]
        ELSE IF ~old_global.ok THEN Fail(t, Err(old_global.msg))
        ELSE IF ~MapHas(t.global_mapping, old_global.name)
        THEN Fail(t, Panic(<<"key not found in global_mapping">>))
        ELSE IF ~print.ok THEN Fail(t, Err(print.msg))
        ELSE [after_read EXCEPT !.emit = Append(reads, print.call),
                                !.declare = Append(read_fns, <<"print", U, "bool">>)]

handle_read_result_call(ins, t, globals) ==
    LET result_idx == get_index(ins.args[1])
        slot == t.result_ssa[result_idx.idx + 1]
        cached == slot.bool # 0
        bool_val == IF cached THEN slot.bool ELSE t.next_id
        reads == IF cached THEN <<>>
                 ELSE <<CallValue(Qtm(<<"read", U, "future", U, "bool">>),
                                  <<Ssa(slot.fut)>>, bool_val),
                        Call(Qtm(<<"dec", U, "future", U, "refcount">>), <<Ssa(slot.fut)>>)>>
        read_fns == IF cached THEN <<>>
                    ELSE <<Qtm(<<"read", U, "future", U, "bool">>),
                           Qtm(<<"dec", U, "future", U, "refcount">>)>>
        after_read == [NoEffect(t) EXCEPT
                          !.emit = reads, !.declare = read_fns, !.erase = TRUE,
                          !.result_ssa[result_idx.idx + 1] = [slot EXCEPT !.bool = bool_val]]
        old_global == parse_gep(globals, ins.args[2])
        new_global == MapGet(t.global_mapping, old_global.name)
        print == add_print_call(globals, new_global, <<"print", U, "bool">>, Ssa(bool_val))
    IN  IF ~result_idx.ok THEN Fail(t, Err(result_idx.msg))
        ELSE IF result_idx.idx >= Len(t.result_ssa)
        THEN Fail(t, Panic(<<"index out of bounds">>))
        ELSE IF ~slot.some THEN Fail(t, Err(<<"Expected measurement handle">>))
        ELSE IF ins.fn = Rt(<<"read", U, "result">>)
        THEN [after_read EXCEPT !.rauw = bool_val]
        ELSE IF ~old_global.ok THEN Fail(t, Err(old_global.msg))
        ELSE IF ~MapHas(t.global_mapping, old_global.name)
        THEN Fail(t, Panic(<<"key not found in global_mapping">>))
        ELSE IF ~print.ok THEN Fail(t, Err(print.msg))
        ELSE [after_read EXCEPT !.emit = Append(reads, print.call),
                                !.declare = Append(read_fns, <<"print", U, "bool">>)]

\* str::rfind(':') and the slice behind it
after_last_colon(bytes) ==
    LET at == {i \in 1..Len(bytes) : bytes[i] = Colon}
    IN  IF at = {} THEN bytes
        ELSE SubSeq(bytes, (CHOOSE i \in at : \A j \in at : j <= i) + 1, Len(bytes))

\* the body handle_classical_record_output and handle_tuple_or_array_output
\* share: a new tag global of the type, mapped in place of the old one, and
\* the print call on it
record_output(ins, t, globals, print_fn, type_tag) ==
    LET old_global == parse_gep(globals, ins.args[2])
        old_name == old_global.name
        full_tag == get_string_label(globals[MapGet(t.global_mapping, old_name)])
        old_label == after_last_colon(full_tag.label)
        built == build_result_global(globals, old_label, old_name, type_tag)
        new_global == Len(globals) + 1
        print == add_print_call(Append(globals, built.g), new_global, print_fn, ins.args[1])
    IN  IF ~old_global.ok THEN Fail(t, Err(old_global.msg))
        ELSE IF ~MapHas(t.global_mapping, old_name)
        THEN Fail(t, Panic(<<"key not found in global_mapping">>))
        ELSE IF ~full_tag.ok THEN Fail(t, Err(full_tag.msg))
        ELSE IF ~built.ok THEN Fail(t, Err(built.msg))
        ELSE IF ~print.ok THEN Fail(t, Err(print.msg))
        ELSE [NoEffect(t) EXCEPT
                 !.emit = <<print.call>>, !.erase = TRUE, !.declare = <<print_fn>>,
                 !.new_globals = <<built.g>>,
                 !.global_mapping = MapInsert(t.global_mapping, old_name, new_global)]

handle_classical_record_output(ins, t, globals) ==
    CASE ins.fn = Rt(<<"bool", U, "record", U, "output">>) ->
            record_output(ins, t, globals, <<"print", U, "bool">>, TyBOOL)
      [] ins.fn = Rt(<<"int", U, "record", U, "output">>) ->
            record_output(ins, t, globals, <<"print", U, "int">>, TyINT)
      [] ins.fn = Rt(<<"double", U, "record", U, "output">>) ->
            record_output(ins, t, globals, <<"print", U, "float">>, TyFLOAT)

handle_tuple_or_array_output(ins, t, globals) ==
    record_output(ins, t, globals, <<"print", U, "int">>,
                  IF ins.fn = Rt(<<"array", U, "record", U, "output">>)
                  THEN TyQIRARRAY ELSE TyQIRTUPLE)

handle_rt_call(ins, t, globals) ==
    CASE ins.fn = Rt(<<"initialize">>) -> [NoEffect(t) EXCEPT !.erase = TRUE]
      [] ins.fn \in {Rt(<<"read", U, "result">>), Rt(<<"result", U, "record", U, "output">>)} ->
            handle_read_result_call(ins, t, globals)
      [] ins.fn \in {Rt(<<"tuple", U, "record", U, "output">>),
                     Rt(<<"array", U, "record", U, "output">>)} ->
            handle_tuple_or_array_output(ins, t, globals)
      [] ins.fn \in {Rt(<<"bool", U, "record", U, "output">>),
                     Rt(<<"int", U, "record", U, "output">>),
                     Rt(<<"double", U, "record", U, "output">>)} ->
            handle_classical_record_output(ins, t, globals)
      [] OTHER -> Fail(t, Err(<<"Unsupported QIR RT function: ">> \o ins.fn))

\* handle_get_current_shot, handle_random_int, handle_random_float,
\* handle_random_int_bounded: a call of the runtime's function in place of
\* the instruction and of its value
replace_value_call(ins, t, fn_name, args) ==
    [NoEffect(t) EXCEPT !.emit = <<CallValue(fn_name, args, t.next_id)>>,
                        !.rauw = t.next_id, !.erase = TRUE, !.declare = <<fn_name>>]

\* handle_random_seed, handle_random_advance
replace_void_call(ins, t, fn_name, args) ==
    [NoEffect(t) EXCEPT !.emit = <<Call(fn_name, args)>>,
                        !.erase = TRUE, !.declare = <<fn_name>>]

handle_qtm_call(ins, t) ==
    CASE ins.fn = Qtm(<<"get", U, "current", U, "shot">>) ->
            replace_value_call(ins, t, <<"get", U, "current", U, "shot">>, <<>>)
      [] ins.fn = Qtm(<<"random", U, "seed">>) ->
            replace_void_call(ins, t, <<"random", U, "seed">>, <<ins.args[1]>>)
      [] ins.fn = Qtm(<<"random", U, "int">>) ->
            replace_value_call(ins, t, <<"random", U, "int">>, <<>>)
      [] ins.fn = Qtm(<<"random", U, "float">>) ->
            replace_value_call(ins, t, <<"random", U, "float">>, <<>>)
      [] ins.fn = Qtm(<<"random", U, "int", U, "bounded">>) ->
            replace_value_call(ins, t, <<"random", U, "rng">>, <<ins.args[1]>>)
      [] ins.fn = Qtm(<<"random", U, "advance">>) ->
            replace_void_call(ins, t, <<"random", U, "advance">>, <<ins.args[1]>>)
      [] OTHER -> NoEffect(t)     \* ___get_wasm_context and converted functions

\* the last arm of process_call_instruction
handle_other_call(ins, t, fns) ==
    LET f == fns[FnIndex(fns, ins.fn)]
    IN  IF count_basic_blocks(f) > 0
        THEN IF ins.fn = <<"main">>
             THEN Fail(t, Err(<<"IR defined function cannot be called 'main'">>))
             ELSE NoEffect(t)
        ELSE IF get_string_attribute(f, "cudaq-fnid").p THEN NoEffect(t)
        ELSE IF get_string_attribute(f, "wasm").p THEN NoEffect(t)
        ELSE Fail(t, Err(<<"Unsupported function: ">> \o ins.fn))

process_call_instruction(ins, t, m) ==
    IF StartsWith(ins.fn, QisPrefix) THEN handle_qis_call(ins, t)
    ELSE IF StartsWith(ins.fn, RtPrefix) THEN handle_rt_call(ins, t, m.globals)
    ELSE IF StartsWith(ins.fn, QtmPrefix) THEN handle_qtm_call(ins, t)
    ELSE handle_other_call(ins, t, m.fns)

\* InstructionValue::replace_all_uses_with within a function body
ReplaceUses(body, old, new) ==
    [b \in 1..Len(body) |-> [i \in 1..Len(body[b]) |->
        [body[b][i] EXCEPT !.args =
            [a \in 1..Len(body[b][i].args) |->
                IF body[b][i].args[a] = Ssa(old) THEN Ssa(new) ELSE body[b][i].args[a]]]]]

\* the block with the built instructions put before instruction ip and the
\* instruction erased or kept
Rebuild(block, ip, e) ==
    SubSeq(block, 1, ip - 1) \o e.emit
    \o (IF e.erase THEN <<>> ELSE <<block[ip]>>)
    \o SubSeq(block, ip + 1, Len(block))

FreshIds(emit) == Cardinality({i \in 1..Len(emit) : emit[i].id # 0})

\* the function after a handler's Effect on its instruction (bb, ip)
ApplyToFunction(f, bb, ip, e) ==
    LET rebuilt == [f.body EXCEPT ![bb] = Rebuild(f.body[bb], ip, e)]
    IN  [f EXCEPT !.body = IF e.rauw = 0 THEN rebuilt
                           ELSE ReplaceUses(rebuilt, f.body[bb][ip].id, e.rauw)]

ApplyToModule(m, fi, bb, ip, e) ==
    [fns |-> get_or_create_functions(
                 [m.fns EXCEPT ![fi] = ApplyToFunction(m.fns[fi], bb, ip, e)], e.declare),
     globals |-> m.globals \o e.new_globals]

(***************************************************************************)
(* The two passes over instructions: process_entry_function over the entry *)
(* function, process_ir_defined_q_fns over the other defined functions.    *)
(* tr.fn, tr.bb, tr.ip is the instruction the iteration is at.  A handler  *)
(* builds before the instruction, so the iteration goes on behind what it  *)
(* built.                                                                  *)
(***************************************************************************)
Current == module.fns[tr.fn].body[tr.bb][tr.ip]

\* the next function of process_ir_defined_q_fns behind index after, 0 for none
NextDefinedFn(fns, entry, after) ==
    LET rest == {i \in (after + 1)..Len(fns) : i # entry /\ count_basic_blocks(fns[i]) > 0}
    IN  IF rest = {} THEN 0 ELSE CHOOSE i \in rest : \A j \in rest : i <= j

\* the iteration's step from instruction ip of the block, which now lies at
\* index at: [pc, tr]
Advance(m, t, at) ==
    LET body == m.fns[t.fn].body
        next_fn == NextDefinedFn(m.fns, t.entry, IF pc = "process_entry" THEN 0 ELSE t.fn)
    IN  IF at + 1 <= Len(body[t.bb])
        THEN [pc |-> pc, tr |-> [t EXCEPT !.ip = at + 1]]
        ELSE IF t.bb + 1 <= Len(body)
        THEN [pc |-> pc, tr |-> [t EXCEPT !.bb = t.bb + 1, !.ip = 1]]
        ELSE IF next_fn # 0
        THEN [pc |-> "process_ir_defined",
              tr |-> [t EXCEPT !.fn = next_fn, !.bb = 1, !.ip = 1]]
        ELSE [pc |-> "free_all_qubits", tr |-> [t EXCEPT !.fn = 0, !.bb = 0, !.ip = 0]]

\* history of the rewriting: for a measurement, a read_result or a
\* result_record_output of the entry function that a handler has rewritten,
\* the result index of the call and the cell the handler left for it, which
\* names the ___lazy_measure value and, once read, the ___read_future_bool
\* value
SitesOf(ins, e) ==
    IF pc = "process_entry" /\ ins.op = "call"
       /\ ins.fn \in {Qis(Body("mz")), Qis(Body("m")), Qis(Body("mresetz")),
                      Rt(<<"read", U, "result">>), Rt(<<"result", U, "record", U, "output">>)}
    THEN LET idx == get_index(ins.args[IF StartsWith(ins.fn, QisPrefix) THEN 2 ELSE 1]).idx
         IN  <<[idx |-> idx, cell |-> e.result_ssa[idx + 1]]>>
    ELSE <<>>

\* a handler's Effect on the current instruction, and the step behind it
Handle(e) ==
    IF ~e.res.ok
    THEN /\ verdict' = e.res
         /\ pc' = "done"
         /\ UNCHANGED <<module, tr>>
    ELSE LET m2 == ApplyToModule(module, tr.fn, tr.bb, tr.ip, e)
             t2 == [tr EXCEPT !.global_mapping = e.global_mapping,
                              !.result_ssa = e.result_ssa,
                              !.next_id = tr.next_id + FreshIds(e.emit),
                              !.sites = tr.sites \o SitesOf(Current, e)]
             at == tr.ip + Len(e.emit) - (IF e.erase THEN 1 ELSE 0)
             step == Advance(m2, t2, at)
         IN  /\ module' = m2
             /\ tr' = step.tr
             /\ pc' = step.pc
             /\ UNCHANGED verdict

\* instructions that are no calls are passed over
SkipInstruction ==
    /\ pc \in {"process_entry", "process_ir_defined"}
    /\ Current.op # "call"
    /\ Handle(NoEffect(tr))
    /\ UNCHANGED <<decompositions, vvars>>

HandleQisCall ==
    /\ pc = "process_entry"
    /\ Current.op = "call"
    /\ StartsWith(Current.fn, QisPrefix)
    /\ Handle(handle_qis_call(Current, tr))
    /\ UNCHANGED <<decompositions, vvars>>

HandleRtCall ==
    /\ pc = "process_entry"
    /\ Current.op = "call"
    /\ ~StartsWith(Current.fn, QisPrefix)
    /\ StartsWith(Current.fn, RtPrefix)
    /\ Handle(handle_rt_call(Current, tr, module.globals))
    /\ UNCHANGED <<decompositions, vvars>>

HandleQtmCall ==
    /\ pc = "process_entry"
    /\ Current.op = "call"
    /\ ~StartsWith(Current.fn, QisPrefix)
    /\ ~StartsWith(Current.fn, RtPrefix)
    /\ StartsWith(Current.fn, QtmPrefix)
    /\ Handle(handle_qtm_call(Current, tr))
    /\ UNCHANGED <<decompositions, vvars>>

HandleOtherCall ==
    /\ pc = "process_entry"
    /\ Current.op = "call"
    /\ ~StartsWith(Current.fn, QisPrefix)
    /\ ~StartsWith(Current.fn, RtPrefix)
    /\ ~StartsWith(Current.fn, QtmPrefix)
    /\ Handle(handle_other_call(Current, tr, module.fns))
    /\ UNCHANGED <<decompositions, vvars>>

\* native_qir_to_qis_call passing over the calls it does not know
native_qir_to_qis_call_lenient(ins, t, defined_fn) ==
    CASE ins.fn = Qis(Body("rxy")) -> replace_rxy_call(ins, t)
      [] ins.fn = Qis(Body("rzz")) -> replace_rzz_call(ins, t)
      [] ins.fn = Qis(Body("rz")) -> replace_rz_call(ins, t)
      [] OTHER -> NoEffect(t)

\* native_qir_to_qis_call that lets the runtime's own functions pass in every
\* function
native_qir_to_qis_call_internal_anywhere(ins, t, defined_fn) ==
    CASE ins.fn = Qis(Body("rxy")) -> replace_rxy_call(ins, t)
      [] ins.fn = Qis(Body("rzz")) -> replace_rzz_call(ins, t)
      [] ins.fn = Qis(Body("rz")) -> replace_rz_call(ins, t)
      [] ins.fn \in {Qtm(<<"qalloc">>), Qtm(<<"reset">>), <<"panic">>} -> NoEffect(t)
      [] OTHER -> Fail(t, Err(<<"Unsupported function call: ">> \o ins.fn \o <<" in ">>
                              \o defined_fn.name))

\* native_qir_to_qis_call
native_qir_to_qis_call(ins, t, defined_fn) ==
    CASE ins.fn = Qis(Body("rxy")) -> replace_rxy_call(ins, t)
      [] ins.fn = Qis(Body("rzz")) -> replace_rzz_call(ins, t)
      [] ins.fn = Qis(Body("rz")) -> replace_rz_call(ins, t)
      [] ins.fn \in {Qtm(<<"qalloc">>), Qtm(<<"reset">>), <<"panic">>} ->
            IF defined_fn.name # INIT_QARRAY_FN
            THEN Fail(t, Err(<<"Unexpected call to internal function: ">> \o ins.fn))
            ELSE NoEffect(t)
      [] OTHER -> Fail(t, Err(<<"Unsupported function call: ">> \o ins.fn \o <<" in ">>
                              \o defined_fn.name))

NativeQirToQisCall ==
    /\ pc = "process_ir_defined"
    /\ Current.op = "call"
    /\ Handle(native_qir_to_qis_call(Current, tr, module.fns[tr.fn]))
    /\ UNCHANGED <<decompositions, vvars>>

(***************************************************************************)
(* free_all_qubits, add_qmain_wrapper, verify, optimize                    *)
(***************************************************************************)
\* the frees of free_all_qubits from the last element down
FreeSequence_descending(n, first_id) ==
    Flatten([i \in 1..n |->
        <<Instr("load", <<QubitElem(n - i)>>, first_id + i - 1),
          Call(Qtm(<<"qfree">>), <<Ssa(first_id + i - 1)>>)>>])

\* what free_all_qubits builds before one return: for each element of the
\* qubit array, the load of the element and ___qfree on the loaded handle
FreeSequence(n, first_id) ==
    Flatten([i \in 1..n |->
        <<Instr("load", <<QubitElem(i - 1)>>, first_id + i - 1),
          Call(Qtm(<<"qfree">>), <<Ssa(first_id + i - 1)>>)>>])

RECURSIVE FreeBlock(_, _, _)
\* the block with the sequence before each of its returns; ids are taken
\* from first_id on
FreeBlock(block, n, first_id) ==
    IF block = <<>> THEN <<>>
    ELSE IF Head(block).op = "ret"
    THEN FreeSequence(n, first_id) \o <<Head(block)>> \o FreeBlock(Tail(block), n, first_id + n)
    ELSE <<Head(block)>> \o FreeBlock(Tail(block), n, first_id)

Returns(block) == Cardinality({i \in 1..Len(block) : block[i].op = "ret"})

RECURSIVE ReturnsBefore(_, _)
ReturnsBefore(body, b) ==
    IF b <= 1 THEN 0 ELSE ReturnsBefore(body, b - 1) + Returns(body[b - 1])

free_all_qubits(f, n, first_id) ==
    [f EXCEPT !.body = [b \in 1..Len(f.body) |->
        FreeBlock(f.body[b], n, first_id + n * ReturnsBefore(f.body, b))]]

FreeAllQubits ==
    /\ pc = "free_all_qubits"
    /\ LET n == Len(module.globals[GlobalIndex(module.globals, QisQs)].init)
           entry_fn == module.fns[tr.entry]
           returns == ReturnsBefore(entry_fn.body, Len(entry_fn.body) + 1)
           freed == [module.fns EXCEPT ![tr.entry] = free_all_qubits(entry_fn, n, tr.next_id)]
       IN  /\ module' = [module EXCEPT !.fns =
                  IF n > 0 /\ returns > 0
                  THEN get_or_create_functions(freed, <<Qtm(<<"qfree">>)>>) ELSE freed]
           /\ tr' = [tr EXCEPT !.next_id = tr.next_id + n * returns]
    /\ pc' = "add_qmain_wrapper"
    /\ UNCHANGED <<decompositions, verdict, vvars>>

\* add_qmain_wrapper: i64 qmain(i64) calls setup, the entry function and
\* teardown; qir_to_qis_core drops its Result
add_qmain_wrapper(fns, entry, id) ==
    LET declared == get_or_create_functions(fns, <<<<"qmain">>>>)
        q == FnIndex(declared, <<"qmain">>)
        entry_block == <<Call(<<"setup">>, <<Operand("param", 0)>>),
                         Call(fns[entry].name, <<>>),
                         CallValue(<<"teardown">>, <<>>, id),
                         Instr("ret", <<Ssa(id)>>, 0)>>
    IN  get_or_create_functions(
            [declared EXCEPT ![q].body = Append(declared[q].body, entry_block)],
            <<<<"setup">>, <<"teardown">>>>)

AddQmainWrapper ==
    /\ pc = "add_qmain_wrapper"
    /\ module' = [module EXCEPT !.fns = add_qmain_wrapper(module.fns, tr.entry, tr.next_id)]
    /\ tr' = [tr EXCEPT !.next_id = tr.next_id + 1]
    /\ pc' = "verify"
    /\ UNCHANGED <<decompositions, verdict, vvars>>

Verify ==
    /\ pc = "verify"
    /\ IF verify(module.fns)
       THEN /\ pc' = "optimize"
            /\ UNCHANGED verdict
       ELSE /\ pc' = "done"
            /\ verdict' = Err(<<"LLVM module verification failed: ">>)
    /\ UNCHANGED <<module, decompositions, tr, vvars>>

Targets == {"x86-64", "aarch64", "native"}

\* opt.rs get_target_machine, as far as it can fail
get_target_machine(target) ==
    IF target \in Targets THEN Ok
    ELSE Err(<<"Failed to get target machine: ", "Invalid target architecture: ", target>>)

\* optimize: at level 0 the pass pipeline leaves the instructions as built
Optimize ==
    /\ pc = "optimize"
    /\ tr.opt_level = 0
    /\ IF get_target_machine(tr.target).ok
       THEN /\ pc' = "emit"
            /\ UNCHANGED verdict
       ELSE /\ pc' = "done"
            /\ verdict' = get_target_machine(tr.target)
    /\ UNCHANGED <<module, decompositions, tr, vvars>>

\* the end of qir_to_qis_core: the entry function loses its string
\* attributes and the module is written out
Emit ==
    /\ pc = "emit"
    /\ module' = [module EXCEPT !.fns[tr.entry].attrs = NoAttrs]
    /\ verdict' = Ok
    /\ pc' = "done"
    /\ UNCHANGED <<decompositions, tr, vvars>>

NextTranslate ==
    \/ DeclareNatives
    \/ DefineHGate \/ DefineXGate \/ DefineYGate \/ DefineZGate
    \/ DefineSGate \/ DefineSAdjGate \/ DefineTGate \/ DefineTAdjGate
    \/ DefineRxGate \/ DefineRyGate \/ DefineCzGate \/ DefineCxGate \/ DefineCcxGate
    \/ MergeModules \/ RunInliner \/ VerifyDecompositions
    \/ FindEntry \/ CreateQubitArray \/ ConvertGlobals
    \/ SkipInstruction \/ HandleQisCall \/ HandleRtCall \/ HandleQtmCall \/ HandleOtherCall
    \/ NativeQirToQisCall
    \/ FreeAllQubits \/ AddQmainWrapper \/ Verify \/ Optimize \/ Emit

(***************************************************************************)
(* Input modules of qir_to_qis_core.  A module declares every function it  *)
(* calls; a qubit or result operand is the constant pointer made of its    *)
(* index.                                                                  *)
(***************************************************************************)
MaxQubits == 3        \* required_num_qubits of the input programs
MaxGates == 2         \* gate calls of an entry function
MaxMeasure == 3       \* measurement and read calls of an entry function
MaxRecords == 2       \* record-output calls of an entry function

Qubit(k) == Operand("qubit", k)
Result(k) == Operand("result", k)
NullPtr == Operand("null", 0)
I64(k) == Operand("i64", k)

NativeCalls ==
    {Call(Qis(Body("rxy")), <<const_float(PI), const_float(2), Qubit(0)>>),
     Call(Qis(Body("rz")), <<const_float(1), Qubit(1)>>),
     Call(Qis(Body("rzz")), <<const_float(2), Qubit(0), Qubit(1)>>),
     Call(Qis(Body("u1q")), <<const_float(1), const_float(3), Qubit(MaxQubits - 1)>>)}

DecomposedCalls ==
    {Call(Qis(Body(g)), <<Qubit(0)>>) : g \in {"h", "x", "y", "z", "s", "t"}}
    \cup {Call(Qis(Adj(g)), <<Qubit(1)>>) : g \in {"s", "t"}}
    \cup {Call(Qis(Body(g)), <<const_float(3), Qubit(1)>>) : g \in {"rx", "ry"}}
    \cup {Call(Qis(Body(g)), <<Qubit(0), Qubit(1)>>) : g \in {"cz", "cx"}}
    \cup {Call(Qis(Body("cnot")), <<Qubit(1), Qubit(0)>>),
          Call(Qis(Body("ccx")), <<Qubit(0), Qubit(1), Qubit(MaxQubits - 1)>>)}

OtherQisCalls ==
    {Call(Qis(Body("reset")), <<Qubit(0)>>),
     Call(Qis(Body("swap")), <<Qubit(0), Qubit(1)>>)}

\* bodies of up to MaxGates calls of a few gates, and of one call of each
GateBodies ==
    SeqsUpTo({Call(Qis(Body("rxy")), <<const_float(PI), const_float(2), Qubit(0)>>),
              Call(Qis(Body("h")), <<Qubit(0)>>),
              Call(Qis(Body("cx")), <<Qubit(0), Qubit(1)>>)}, MaxGates)
    \cup {<<c>> : c \in NativeCalls \cup DecomposedCalls \cup OtherQisCalls}

\* the called functions of the bodies, declared where the module lacks them
CalledNames(fns) ==
    LET calls == SelectSeq(Flatten([f \in 1..Len(fns) |-> Flatten(fns[f].body)]),
                           LAMBDA ins : ins.op = "call")
    IN  [i \in 1..Len(calls) |-> calls[i].fn]

WithDeclarations(fns) == get_or_create_functions(fns, CalledNames(fns))

\* values are numbered by their place in the function
Numbered(block, base) ==
    [i \in 1..Len(block) |->
        IF block[i].id = 0 THEN block[i] ELSE [block[i] EXCEPT !.id = base + i]]

Entry(nq, nr, body) ==
    Fn(<<"program">>,
       EntryAttrs(Attr(<<U32(nq)>>), Attr(<<U32(nr)>>), Attr(<<"base">>), Attr(<<"labeled">>)),
       FALSE, body)

Program(nq, nr, body, others, globals) ==
    [fns |-> WithDeclarations(<<Entry(nq, nr, body)>> \o others), globals |-> globals]

GatePrograms ==
    {Program(nq, 1, <<Append(b, Ret)>>, <<>>, <<>>) :
        nq \in {2, MaxQubits}, b \in GateBodies}

\* the label globals of the input programs: "a", "a:a", "", a string that is
\* no constant, and "=a"
LabelGlobals ==
    <<Global(<<"lbl0">>, "internal", TRUE, TRUE, <<97, 0>>),
      Global(<<"lbl1">>, "internal", TRUE, TRUE, <<97, Colon, 97, 0>>),
      Global(<<"lbl2">>, "internal", TRUE, TRUE, <<0>>),
      Global(<<"lbl3">>, "internal", FALSE, TRUE, <<97, 0>>),
      Global(<<"lbl4">>, "private", TRUE, TRUE, <<Equals, 97, 0>>)>>

Label(g) == Operand("global", g)

\* a call with a value; Numbered gives the value its number
Valued(fn, args) == CallValue(fn, args, 1)

MeasureCalls ==
    {Call(Qis(Body("mz")), <<Qubit(0), Result(0)>>),
     Call(Qis(Body("mz")), <<Qubit(1), Result(0)>>),
     Call(Qis(Body("mresetz")), <<Qubit(1), Result(1)>>),
     Valued(Rt(<<"read", U, "result">>), <<Result(0)>>),
     Valued(Rt(<<"read", U, "result">>), <<Result(1)>>),
     Call(Rt(<<"result", U, "record", U, "output">>), <<Result(0), Label(1)>>),
     Call(Rt(<<"result", U, "record", U, "output">>), <<Result(1), NullPtr>>)}

MeasureBodies ==
    SeqsUpTo(MeasureCalls, MaxMeasure)
    \cup {<<Call(Rt(<<"initialize">>), <<NullPtr>>),
            Call(Qis(Body("mz")), <<Qubit(0), Result(0)>>),
            Valued(Rt(<<"read", U, "result">>), <<Result(0)>>),
            Call(Qis(Body("mz")), <<Qubit(1), Result(0)>>),
            Valued(Rt(<<"read", U, "result">>), <<Result(0)>>),
            Call(Rt(<<"result", U, "record", U, "output">>), <<Result(0), Label(1)>>)>>,
          <<Call(Qis(Body("mz")), <<Qubit(0), Result(2)>>)>>,
          <<Call(Qis(Body("mz")), <<Operand("ssa", 0), Result(0)>>)>>}

MeasurePrograms ==
    {Program(2, 2, <<Numbered(Append(b, Ret), 0)>>, <<>>, SubSeq(LabelGlobals, 1, 1)) :
        b \in MeasureBodies}

\* a measurement, a read of it and a branch on the value read; the blocks
\* branched to read or record the result again
Branch(cond) == Instr("br", <<cond, Operand("block", 2), Operand("block", 3)>>, 0)

BranchPrograms ==
    LET mz == Call(Qis(Body("mz")), <<Qubit(0), Result(0)>>)
        read(id) == CallValue(Rt(<<"read", U, "result">>), <<Result(0)>>, id)
        record == Call(Rt(<<"result", U, "record", U, "output">>), <<Result(0), Label(1)>>)
    IN  {Program(2, 1, <<<<mz, read(1), Branch(Ssa(1))>>, <<read(2), record, Ret>>,
                           <<record, Ret>>>>, <<>>, SubSeq(LabelGlobals, 1, 1)),
         Program(2, 1, <<<<mz, Valued(Qtm(<<"random", U, "int">>), <<>>), Branch(Ssa(1))>>,
                           <<read(2), record, Ret>>, <<record, Ret>>>>,
                 <<>>, SubSeq(LabelGlobals, 1, 1))}

RecordCalls(labels) ==
    {Call(Rt(<<"bool", U, "record", U, "output">>), <<Operand("i1", 1), Label(g)>>) :
        g \in labels}
    \cup {Call(Rt(<<"int", U, "record", U, "output">>), <<I64(5), Label(g)>>) : g \in labels}
    \cup {Call(Rt(<<"double", U, "record", U, "output">>), <<const_float(1), Label(g)>>) :
             g \in labels}
    \cup {Call(Rt(<<"array", U, "record", U, "output">>), <<I64(2), Label(g)>>) : g \in labels}
    \cup {Call(Rt(<<"tuple", U, "record", U, "output">>), <<I64(2), Label(g)>>) : g \in labels}
    \cup {Call(Rt(<<"result", U, "record", U, "output">>), <<Result(0), Label(g)>>) :
             g \in labels}

RecordBodies ==
    SeqsUpTo(RecordCalls({1, 2}), MaxRecords)
    \cup {<<c>> : c \in RecordCalls(1..Len(LabelGlobals))}
    \cup {<<Call(Rt(<<"int", U, "record", U, "output">>), <<I64(5), NullPtr>>)>>,
          <<Call(Rt(<<"int", U, "record", U, "output">>), <<I64(5), I64(0)>>)>>,
          <<Call(Rt(<<"foo">>), <<>>)>>}

RecordPrograms ==
    {Program(1, 1, <<<<Call(Qis(Body("mz")), <<Qubit(0), Result(0)>>)>> \o b \o <<Ret>>>>,
             <<>>, LabelGlobals) : b \in RecordBodies}

\* programs with functions besides the entry function: a helper that is
\* defined in the module and applies one gate to its parameter, a helper
\* called main, external functions, and the translator's own functions
Helper(name, body) == Fn(name, NoAttrs, FALSE, <<Append(body, Ret)>>)

HelperBodies ==
    {<<>>,
     <<Call(Qis(Body("rxy")), <<const_float(PI), const_float(2), Operand("param", 0)>>)>>,
     <<Call(Qis(Body("rz")), <<const_float(1), Operand("param", 0)>>)>>,
     <<Call(Qis(Body("rzz")), <<const_float(1), Operand("param", 0), Qubit(1)>>)>>,
     <<Call(Qis(Body("h")), <<Operand("param", 0)>>)>>,
     <<Call(Qis(Body("cx")), <<Operand("param", 0), Qubit(1)>>),
       Call(Qis(Body("h")), <<Qubit(1)>>)>>,
     <<Call(Qis(Body("mz")), <<Operand("param", 0), Result(0)>>)>>,
     <<Call(Qis(Body("reset")), <<Operand("param", 0)>>)>>,
     <<Call(Rt(<<"initialize">>), <<NullPtr>>)>>,
     <<Call(Qtm(<<"qalloc">>), <<>>)>>,
     <<Call(<<"ext">>, <<>>)>>}

External(name, key) == Fn(name, [NoAttrs EXCEPT ![key] = Attr(<<>>)], FALSE, <<>>)

QtmBodies ==
    {<<Valued(Qtm(<<"get", U, "current", U, "shot">>), <<>>),
       Call(Rt(<<"int", U, "record", U, "output">>), <<Ssa(1), Label(1)>>)>>,
     <<Call(Qtm(<<"random", U, "seed">>), <<I64(7)>>),
       Valued(Qtm(<<"random", U, "int">>), <<>>),
       Valued(Qtm(<<"random", U, "float">>), <<>>),
       Valued(Qtm(<<"random", U, "int", U, "bounded">>), <<I64(3)>>),
       Call(Qtm(<<"random", U, "advance">>), <<I64(1)>>)>>,
     <<Call(Qtm(<<"get", U, "wasm", U, "context">>), <<>>)>>,
     <<Call(Qtm(<<"rxy">>), <<I64(0), const_float(1), const_float(1)>>)>>,
     <<Valued(Qtm(<<"qalloc">>), <<>>), Call(Qtm(<<"reset">>), <<Ssa(1)>>)>>,
     <<Call(<<"panic">>, <<Operand("i32", 1), NullPtr>>)>>}

HelperPrograms ==
    {Program(2, 1, <<<<Call(<<"helper">>, <<Qubit(0)>>), Call(Qis(Body("h")), <<Qubit(0)>>),
                       Ret>>>>, <<Helper(<<"helper">>, b)>>, <<>>) : b \in HelperBodies}
    \cup {Program(2, 1, <<<<Call(<<"main">>, <<Qubit(0)>>), Ret>>>>,
                  <<Helper(<<"main">>, <<>>)>>, <<>>)}
    \cup {Program(2, 1, <<<<Call(<<"ext">>, <<>>), Ret>>>>, <<f>>, <<>>) :
             f \in {Decl(<<"ext">>), External(<<"ext">>, "wasm"),
                    External(<<"ext">>, "cudaq-fnid")}}
    \cup {Program(2, 1, <<Numbered(Append(b, Ret), 0)>>, <<>>, SubSeq(LabelGlobals, 1, 1)) :
             b \in QtmBodies}

\* programs whose entry function lacks what the translation reads, and a
\* module without an entry function
AttributePrograms ==
    {[fns |-> <<Fn(<<"program">>, EntryAttrs(nq, nr, Attr(<<"base">>), Attr(<<"labeled">>)),
                   FALSE, body)>>,
      globals |-> <<>>] :
        nq \in {NoAttr, Attr(<<"0">>), Attr(<<"2">>), Attr(<<"a">>)},
        nr \in {NoAttr, Attr(<<"1">>), Attr(<<"+", "1">>)},
        body \in {<<>>, <<<<Ret>>>>}}
    \cup {[fns |-> <<Helper(<<"helper">>, <<>>)>>, globals |-> <<>>]}

\* modules the bitcode reader takes and Module::verify refuses: a value is
\* used by a call before the instruction that defines it.  The call is one
\* the rewriter erases, or one it rewrites with the same operand.
IllFormedPrograms ==
    {Program(2, 1, <<<<Call(Rt(<<"initialize">>), <<Ssa(2)>>),
                       Instr("inttoptr", <<I64(0)>>, 2), Ret>>>>, <<>>, <<>>),
     Program(2, 1, <<<<Call(Rt(<<"int", U, "record", U, "output">>), <<Ssa(2), Label(1)>>),
                       CallValue(Qtm(<<"random", U, "int">>), <<>>, 2), Ret>>>>,
             <<>>, SubSeq(LabelGlobals, 1, 1))}

\* a module that defines a function of its own under the wrapper's name:
\* define i64 @qmain(i64 %0) { ret i64 %0 }
WrapperPrograms ==
    {Program(2, 1, <<<<Call(Qis(Body("h")), <<Qubit(0)>>), Ret>>>>,
             <<Fn(<<"qmain">>, NoAttrs, FALSE, <<<<Instr("ret", <<Operand("param", 0)>>, 0)>>>>)>>,
             <<>>)}

Inputs ==
    GatePrograms \cup MeasurePrograms \cup BranchPrograms \cup RecordPrograms
    \cup HelperPrograms \cup AttributePrograms \cup IllFormedPrograms
    \cup WrapperPrograms

Init ==
    /\ pc = "add_decompositions"
    /\ module \in Inputs
    /\ decompositions = <<>>
    /\ \E target \in {"native", "riscv"} : tr = [NoLocals EXCEPT !.target = target]
    /\ run = NoRun
    /\ host = NoHost
    /\ unit = NoUnit
    /\ process = NoProcess
    /\ verdict = NoVerdict
    /\ vmod = VMod(<<>>, <<>>, FALSE, "valid")
    /\ errors = <<>>

Next == NextTranslate

Spec == Init /\ [][Next]_vars

(***************************************************************************)
(* The decomposition table of the specification, angles in quarters of pi: *)
(* each gate with its parameters in order and its steps, a step being a    *)
(* native gate, its angles and the names of its qubit parameters; an angle *)
(* is a number or the gate's angle parameter theta.                        *)
(***************************************************************************)
Angle(n) == [n |-> n, param |-> ""]
Theta == [n |-> 0, param |-> "theta"]

Step(g, nums, qubits) ==
    [g |-> g, qubits |-> qubits, angles |-> [i \in 1..Len(nums) |-> Angle(nums[i])]]

\* rxy(theta, second, q)
ThetaStep(second, qubits) ==
    [g |-> "rxy", qubits |-> qubits, angles |-> <<Theta, Angle(second)>>]

Row(name, params, steps) == [name |-> name, params |-> params, steps |-> steps]

CxSteps ==
    <<Step("rxy", <<-2, 2>>, <<"t">>), Step("rzz", <<2>>, <<"c", "t">>),
      Step("rz", <<-2>>, <<"c">>), Step("rxy", <<2, 4>>, <<"t">>),
      Step("rz", <<-2>>, <<"t">>)>>

CcxSteps ==
    <<Step("rxy", <<4, -2>>, <<"t">>), Step("rzz", <<2>>, <<"c2", "t">>),
      Step("rxy", <<1, 2>>, <<"t">>), Step("rzz", <<2>>, <<"c1", "t">>),
      Step("rxy", <<1, 0>>, <<"t">>), Step("rzz", <<2>>, <<"c2", "t">>),
      Step("rxy", <<1, -2>>, <<"t">>), Step("rzz", <<2>>, <<"c1", "t">>),
      Step("rxy", <<4, 1>>, <<"c1">>), Step("rxy", <<-3, 4>>, <<"t">>),
      Step("rzz", <<1>>, <<"c1", "c2">>), Step("rz", <<4>>, <<"t">>),
      Step("rxy", <<4, -1>>, <<"c1">>), Step("rz", <<-3>>, <<"c2">>),
      Step("rz", <<1>>, <<"c1">>)>>

GateTable ==
    {Row(Qis(Body("h")), <<"q">>, <<Step("rxy", <<2, -2>>, <<"q">>), Step("rz", <<4>>, <<"q">>)>>),
     Row(Qis(Body("x")), <<"q">>, <<Step("rxy", <<4, 0>>, <<"q">>)>>),
     Row(Qis(Body("y")), <<"q">>, <<Step("rxy", <<4, 2>>, <<"q">>)>>),
     Row(Qis(Body("z")), <<"q">>, <<Step("rz", <<4>>, <<"q">>)>>),
     Row(Qis(Body("s")), <<"q">>, <<Step("rz", <<2>>, <<"q">>)>>),
     Row(Qis(Adj("s")), <<"q">>, <<Step("rz", <<-2>>, <<"q">>)>>),
     Row(Qis(Body("t")), <<"q">>, <<Step("rz", <<1>>, <<"q">>)>>),
     Row(Qis(Adj("t")), <<"q">>, <<Step("rz", <<-1>>, <<"q">>)>>),
     Row(Qis(Body("rx")), <<"theta", "q">>, <<ThetaStep(0, <<"q">>)>>),
     Row(Qis(Body("ry")), <<"theta", "q">>, <<ThetaStep(2, <<"q">>)>>),
     Row(Qis(Body("cz")), <<"c", "t">>,
         <<Step("rzz", <<2>>, <<"c", "t">>), Step("rz", <<-2>>, <<"t">>),
           Step("rz", <<-2>>, <<"c">>)>>),
     Row(Qis(Body("cx")), <<"c", "t">>, CxSteps),
     Row(Qis(Body("cnot")), <<"c", "t">>, CxSteps),
     Row(Qis(Body("ccx")), <<"c1", "c2", "t">>, CcxSteps)}

\* the place of a parameter among the parameters of its gate
ParamIndex(params, name) == CHOOSE i \in 1..Len(params) : params[i] = name

\* the call a step of the table stands for
StepCall(step, params) ==
    Call(Qis(Body(step.g)),
         [i \in 1..Len(step.angles) |->
             IF step.angles[i].param = ""
             THEN Operand("f64", step.angles[i].n)
             ELSE Operand("param", ParamIndex(params, step.angles[i].param) - 1)]
         \o [i \in 1..Len(step.qubits) |->
                Operand("param", ParamIndex(params, step.qubits[i]) - 1)])

TableBody(row) == <<[i \in 1..Len(row.steps) |-> StepCall(row.steps[i], row.params)] \o <<Ret>>>>

TableRow(name) == CHOOSE row \in GateTable : row.name = name

TableNames == {row.name : row \in GateTable}

\* C6: every body of the decomposition module is the sequence of native-gate
\* calls the specification's table gives for its gate, with the same angles
\* and the same parameters in the same order; once the module is built it
\* has such a body for each of the fourteen gates of the table; and a body
\* linked into the translated module for a gate of the table is the table's.
C6_DecompositionBodies ==
    /\ \A i \in 1..Len(decompositions) :
          decompositions[i].body # <<>> =>
             /\ decompositions[i].name \in TableNames
             /\ decompositions[i].body = TableBody(TableRow(decompositions[i].name))
             /\ Callees(decompositions[i].body) \subseteq
                   {native.rxy, native.rz, native.rzz}
    /\ pc = "merge" =>
          \A name \in TableNames :
             /\ FnIndex(decompositions, name) # 0
             /\ decompositions[FnIndex(decompositions, name)].body # <<>>
    /\ pc = "inline" =>
          \A i \in 1..Len(module.fns) :
             (module.fns[i].name \in TableNames /\ module.fns[i].body # <<>>) =>
                module.fns[i].body = TableBody(TableRow(module.fns[i].name))

\* the decomposition module is complete, and the body of ccx has been linked
\* into a module that calls it
C6_Witness ==
    /\ pc = "inline"
    /\ FnIndex(module.fns, Qis(Body("ccx"))) # 0
    /\ Len(module.fns[FnIndex(module.fns, Qis(Body("ccx")))].body[1]) = 16

(***************************************************************************)
(* Properties of the translation                                           *)
(***************************************************************************)
Succeeded == pc = "done" /\ verdict.ok

AllInstructions(fns) == UNION {Range(Flatten(fns[f].body)) : f \in 1..Len(fns)}

CallsIn(body) == {ins \in Range(Flatten(body)) : ins.op = "call"}

QuantumPrefix == <<U, U, "quantum", U, U>>

EntryReturns ==
    LET body == module.fns[tr.entry].body
    IN  UNION {{<<b, i>> : i \in {j \in 1..Len(body[b]) : body[b][j].op = "ret"}} :
               b \in 1..Len(body)}

AfterEpilogue == pc \in {"add_qmain_wrapper", "verify", "optimize", "emit"}

RequiredQubits == DecimalValue(get_required_num_qubits(module.fns[tr.entry]).val)

IsQfree(ins) == ins.op = "call" /\ ins.fn = Qtm(<<"qfree">>)

\* C3, as amended: after the free-qubits epilogue, the last 2N instructions
\* before every return of the entry function (N = required_num_qubits) are,
\* for i = 0..N-1 in this order, the load of qis_qs[i] and the call of
\* ___qfree on the loaded handle.
C3_EpilogueLoadsAndFrees ==
    AfterEpilogue =>
       \A r \in EntryReturns :
          LET block == module.fns[tr.entry].body[r[1]]
              n == RequiredQubits
          IN  /\ r[2] > 2 * n
              /\ \A i \in 0..(n - 1) :
                    LET load == block[r[2] - 2 * n + 2 * i]
                        free == block[r[2] - 2 * n + 2 * i + 1]
                    IN  /\ load.op = "load"
                        /\ load.args = <<QubitElem(i)>>
                        /\ IsQfree(free)
                        /\ free.args = <<Ssa(load.id)>>

\* the epilogue has been built in an entry function of at least two qubits
\* with more than one return
C3_Witness ==
    /\ pc = "add_qmain_wrapper"
    /\ RequiredQubits >= 2
    /\ Cardinality(EntryReturns) >= 2

\* C3, as stated: the last N instructions before every return of the entry
\* function are calls of ___qfree.
C3_LastNAreFrees ==
    AfterEpilogue =>
       \A r \in EntryReturns :
          LET block == module.fns[tr.entry].body[r[1]]
          IN  /\ r[2] > RequiredQubits
              /\ \A k \in 1..RequiredQubits : IsQfree(block[r[2] - k])

ReadFutureBool == Qtm(<<"read", U, "future", U, "bool">>)
DecFutureRefcount == Qtm(<<"dec", U, "future", U, "refcount">>)

\* the calls of a function on one argument, by their places in the body
CallsOn(body, fn, arg) ==
    UNION {{<<b, i>> : i \in {j \in 1..Len(body[b]) :
                                 /\ body[b][j].op = "call"
                                 /\ body[b][j].fn = fn
                                 /\ body[b][j].args = <<arg>>}} : b \in 1..Len(body)}

CallsOf(body, fns) ==
    UNION {{<<b, i>> : i \in {j \in 1..Len(body[b]) :
                                 body[b][j].op = "call" /\ body[b][j].fn \in fns}} :
           b \in 1..Len(body)}

\* the operands of the body that are the value, counted
Uses(body, value) ==
    Cardinality(UNION {UNION {{<<b, i, a>> : a \in {k \in 1..Len(body[b][i].args) :
                                                      body[b][i].args[k] = value}} :
                              i \in 1..Len(body[b])} : b \in 1..Len(body)})

IsReadOfResult(ins) ==
    /\ ins.op = "call"
    /\ ins.fn \in {Rt(<<"read", U, "result">>), Rt(<<"result", U, "record", U, "output">>)}

\* the step of the entry pass on the current instruction went through
Handled == pc = "process_entry" /\ pc' # "done"

\* C2: when the rewriter handles a read_result or result_record_output of
\* result index i, whose measurement produced the future F, the entry
\* function afterwards holds exactly one ___read_future_bool call and
\* exactly one ___dec_future_refcount call on F; at the first read these two
\* are new, at every later read no ___read_future_bool or
\* ___dec_future_refcount call is added at all; and the read is replaced by
\* the value B of that one ___read_future_bool call: B is what a read_result
\* is replaced with in all its uses and what the print call of a record
\* passes.
C2_OneReadPerFuture ==
    [][(Handled /\ IsReadOfResult(Current)) =>
          LET old == module.fns[tr.entry].body
              new == module'.fns[tr.entry].body
              slot == tr.result_ssa[Current.args[1].v + 1]
              F == Ssa(slot.fut)
              first == slot.bool = 0
              reads == CallsOn(new, ReadFutureBool, F)
              at == CHOOSE r \in reads : TRUE
              B == new[at[1]][at[2]].id
              runtime(body) == Cardinality(CallsOf(body, {ReadFutureBool, DecFutureRefcount}))
          IN  /\ Cardinality(reads) = 1
              /\ Cardinality(CallsOn(new, DecFutureRefcount, F)) = 1
              /\ first <=> CallsOn(old, ReadFutureBool, F) = {}
              /\ runtime(new) = runtime(old) + (IF first THEN 2 ELSE 0)
              /\ ~first => B = slot.bool
              /\ tr'.result_ssa[Current.args[1].v + 1] = [slot EXCEPT !.bool = B]
              /\ Uses(new, Ssa(Current.id)) = 0 \/ Current.id = 0
              /\ Uses(new, Ssa(B)) =
                    Uses(old, Ssa(B))
                    + (IF Current.fn = Rt(<<"read", U, "result">>)
                       THEN Uses(old, Ssa(Current.id)) ELSE 1)
      ]_vars

\* a result has been recorded and read after its first read: the entry
\* function uses the value of its one ___read_future_bool call three times
C2_Witness ==
    /\ Succeeded
    /\ \E ins \in Range(Flatten(module.fns[tr.entry].body)) :
          /\ ins.op = "call"
          /\ ins.fn = ReadFutureBool
          /\ Uses(module.fns[tr.entry].body, Ssa(ins.id)) >= 3

RecordOutputs ==
    {Rt(<<g, U, "record", U, "output">>) :
        g \in {"result", "bool", "int", "double", "array", "tuple"}}

PrintFunctions == {<<"print", U, g>> : g \in {"bool", "int", "float"}}

OutputTypes == {TyRESULT, TyBOOL, TyINT, TyFLOAT, TyQIRARRAY, TyQIRTUPLE}

\* the contents of a tag global: a length byte, then "USER:<TYPE>:" and a
\* label, the byte holding the length of what follows it
IsTag(bytes) ==
    /\ Len(bytes) >= 1
    /\ bytes[1] = Len(bytes) - 1
    /\ \E ty \in OutputTypes : StartsWith(Tail(bytes), TagUSER \o <<Colon>> \o ty \o <<Colon>>)

\* C5: when the rewriter handles a record-output call of the entry function
\* (result, bool, int, double, array or tuple), the call is gone and exactly
\* one print call stands in its place; the first argument of the print call
\* is a global whose contents are a length byte and "USER:<TYPE>:<label>"
\* with TYPE one of RESULT, BOOL, INT, FLOAT, QIRARRAY, QIRTUPLE, the length
\* byte is the length of the string behind it, and the i64 argument of the
\* call is the length of the global's array less one.
C5_RecordBecomesPrint ==
    [][(Handled /\ Current.op = "call" /\ Current.fn \in RecordOutputs) =>
          LET old == module.fns[tr.entry].body
              new == module'.fns[tr.entry].body
              at == tr.ip + Len(new[tr.bb]) - Len(old[tr.bb])
              print == new[tr.bb][at]
              tag == module'.globals[print.args[1].v]
          IN  /\ Cardinality(CallsOf(new, RecordOutputs))
                    = Cardinality(CallsOf(old, RecordOutputs)) - 1
              /\ Cardinality(CallsOf(new, PrintFunctions))
                    = Cardinality(CallsOf(old, PrintFunctions)) + 1
              /\ SubSeq(new[tr.bb], at + 1, Len(new[tr.bb]))
                    = SubSeq(old[tr.bb], tr.ip + 1, Len(old[tr.bb]))
              /\ print.op = "call"
              /\ print.fn \in PrintFunctions
              /\ Len(print.args) = 3
              /\ print.args[1].kind = "global"
              /\ IsTag(tag.init)
              /\ print.args[2] = I64(Len(tag.init) - 1)
      ]_vars

\* a translation has succeeded that replaced a double_record_output by a
\* print_float on the tag "USER:FLOAT:a"
C5_Witness ==
    /\ Succeeded
    /\ \E ins \in Range(Flatten(module.fns[tr.entry].body)) :
          /\ ins.op = "call"
          /\ ins.fn = <<"print", U, "float">>
          /\ module.globals[ins.args[1].v].init
                = <<12>> \o TagUSER \o <<Colon>> \o TyFLOAT \o <<Colon, 97>>

(***************************************************************************)
(* An execution of the translated module, from qmain.  The runtime behind  *)
(* the declared functions hands out qubit handles: run.live are the        *)
(* handles allocated and not freed, run.qis_qs is the memory of the global *)
(* qis_qs, run.stack the frames of the functions entered, each with the    *)
(* instruction it is at, its parameters and its values.                    *)
(***************************************************************************)
MaxHandles == 2       \* qubits the runtime can allocate
MaxDepth == 4         \* frames of an execution

Handles == 1..MaxHandles

Frame(f, params) ==
    [fn |-> f, bb |-> 1, ip |-> 1, params |-> params, env |-> [i \in 1..tr.next_id |-> 0]]

Top == run.stack[Len(run.stack)]

Executing == module.fns[Top.fn].body[Top.bb][Top.ip]

Running == pc = "run" /\ run.status = "running"

Eval(op) ==
    CASE op.kind = "ssa" -> Top.env[op.v]
      [] op.kind = "param" -> Top.params[op.v + 1]
      [] OTHER -> op.v

\* the execution steps to the next instruction, the value of the one
\* executed bound to its name
Stepped(r, value) ==
    [r EXCEPT !.stack[Len(r.stack)] =
        [Top EXCEPT !.ip = Top.ip + 1,
                    !.env = IF Executing.id = 0 THEN Top.env
                            ELSE [Top.env EXCEPT ![Executing.id] = value]]]

\* a result index no measurement of the execution has written
NoOutcome == 2

\* the result index the rewriting took the value from: the index of the
\* measurement that built a ___lazy_measure value, or of the read that
\* built a ___read_future_bool value; 0 for a value of neither kind
MeasuredInto(id) ==
    LET hits == {s \in Range(tr.sites) : s.cell.fut = id}
    IN  IF hits = {} THEN 0 ELSE (CHOOSE s \in hits : TRUE).idx + 1

ReadFrom(id) ==
    LET hits == {s \in Range(tr.sites) : s.cell.bool = id}
    IN  IF hits = {} \/ id = 0 THEN 0 ELSE (CHOOSE s \in hits : TRUE).idx + 1

StartRun ==
    /\ Succeeded
    /\ run.status = "idle"
    /\ pc' = "run"
    /\ run' = [NoRun EXCEPT
                  !.status = "running",
                  !.latest = [i \in 1..Len(tr.result_ssa) |-> NoOutcome],
                  !.stack = <<Frame(FnIndex(module.fns, <<"qmain">>), <<0>>)>>,
                  !.qis_qs = module.globals[GlobalIndex(module.globals, QisQs)].init]
    /\ UNCHANGED xvars

\* the handle arguments of the runtime's qubit operations
HandleArguments(ins) ==
    CASE ins.fn \in {Qtm(<<"rxy">>), Qtm(<<"rz">>), Qtm(<<"reset">>),
                     Qtm(<<"lazy", U, "measure">>)} -> {Eval(ins.args[1])}
      [] ins.fn = Qtm(<<"rzz">>) -> {Eval(ins.args[1]), Eval(ins.args[2])}
      [] OTHER -> {}

\* a call of a function the module only declares: the runtime
ExecRuntimeCall ==
    /\ Running
    /\ Executing.op = "call"
    /\ module.fns[FnIndex(module.fns, Executing.fn)].body = <<>>
    /\ CASE Executing.fn = Qtm(<<"qalloc">>) ->
              \E h \in (IF Handles \ run.live = {} THEN {U64_MAX} ELSE Handles \ run.live) :
                 run' = Stepped([run EXCEPT !.live = run.live \cup ({h} \cap Handles)], h)
         [] Executing.fn = Qtm(<<"qfree">>) ->
              LET h == Eval(Executing.args[1])
              IN  run' = Stepped([run EXCEPT !.live = run.live \ {h},
                                             !.bad_free = run.bad_free \/ h \notin run.live], 0)
         [] Executing.fn = Qtm(<<"lazy", U, "measure">>) ->
              \* the future is named by the outcome it will give
              \E b \in {0, 1} :
                 run' = Stepped([run EXCEPT
                                    !.used_freed = run.used_freed
                                        \/ ~(HandleArguments(Executing) \subseteq run.live),
                                    !.latest = IF MeasuredInto(Executing.id) = 0 THEN @
                                               ELSE [@ EXCEPT ![MeasuredInto(Executing.id)] = b]],
                                b)
         [] Executing.fn = ReadFutureBool ->
              run' = Stepped(run, Eval(Executing.args[1]))
         [] Executing.fn = <<"panic">> ->
              run' = [run EXCEPT !.status = "panicked"]
         [] OTHER ->
              run' = Stepped([run EXCEPT !.used_freed =
                                 run.used_freed \/ ~(HandleArguments(Executing) \subseteq run.live)],
                             0)
    /\ UNCHANGED <<pc, xvars>>

\* a call of a function the module defines
ExecEnter ==
    /\ Running
    /\ Executing.op = "call"
    /\ module.fns[FnIndex(module.fns, Executing.fn)].body # <<>>
    /\ Len(run.stack) < MaxDepth
    /\ run' = [run EXCEPT !.stack =
                  Append(run.stack,
                         Frame(FnIndex(module.fns, Executing.fn),
                               [a \in 1..Len(Executing.args) |-> Eval(Executing.args[a])]))]
    /\ UNCHANGED <<pc, xvars>>

ExecReturn ==
    /\ Running
    /\ Executing.op = "ret"
    /\ LET value == IF Executing.args = <<>> THEN 0 ELSE Eval(Executing.args[1])
           popped == [run EXCEPT !.stack = SubSeq(run.stack, 1, Len(run.stack) - 1)]
           caller == popped.stack[Len(popped.stack)]
           call == module.fns[caller.fn].body[caller.bb][caller.ip]
       IN  run' = IF popped.stack = <<>> THEN [popped EXCEPT !.status = "exited"]
                  ELSE [popped EXCEPT !.stack[Len(popped.stack)] =
                           [caller EXCEPT !.ip = caller.ip + 1,
                                          !.env = IF call.id = 0 THEN caller.env
                                                  ELSE [caller.env EXCEPT ![call.id] = value]]]
    /\ UNCHANGED <<pc, xvars>>

ExecBranch ==
    /\ Running
    /\ Executing.op = "br"
    /\ LET target == IF Len(Executing.args) = 1 THEN Executing.args[1].v
                     ELSE IF Eval(Executing.args[1]) # 0 THEN Executing.args[2].v
                     ELSE Executing.args[3].v
       IN  run' = [run EXCEPT !.stack[Len(run.stack)] = [Top EXCEPT !.bb = target, !.ip = 1]]
    /\ UNCHANGED <<pc, xvars>>

\* load, store, getelementptr, ptrtoint, icmp eq; an address of qis_qs is
\* the index of the element, and an access outside the array is undefined
ExecInstruction ==
    /\ Running
    /\ Executing.op \in {"load", "store", "gep", "ptrtoint", "icmp", "unreachable"}
    /\ LET a(k) == Eval(Executing.args[k])
           inside(addr) == addr \in 0..(Len(run.qis_qs) - 1)
       IN  run' =
              CASE Executing.op = "load" ->
                      IF inside(a(1)) THEN Stepped(run, run.qis_qs[a(1) + 1])
                      ELSE [run EXCEPT !.status = "undefined"]
                [] Executing.op = "store" ->
                      IF inside(a(1)) THEN Stepped([run EXCEPT !.qis_qs[a(1) + 1] = a(2)], 0)
                      ELSE [run EXCEPT !.status = "undefined"]
                [] Executing.op = "gep" -> Stepped(run, a(1) + a(2))
                [] Executing.op = "ptrtoint" -> Stepped(run, a(1))
                [] Executing.op = "icmp" -> Stepped(run, IF a(1) = a(2) THEN 1 ELSE 0)
                [] OTHER -> [run EXCEPT !.status = "undefined"]
    /\ UNCHANGED <<pc, xvars>>

NextRun ==
    \/ NextTranslate
    \/ StartRun \/ ExecRuntimeCall \/ ExecEnter \/ ExecReturn \/ ExecBranch \/ ExecInstruction

\* the programs executed: an entry function that measures and, on the
\* outcome, calls itself; gate and measurement programs; a program with a
\* helper function
RecursivePrograms ==
    {Program(1, 1,
             <<<<Call(Qis(Body("mz")), <<Qubit(0), Result(0)>>),
                 CallValue(Rt(<<"read", U, "result">>), <<Result(0)>>, 1), Branch(Ssa(1))>>,
               <<Call(<<"program">>, <<>>)>> \o after \o <<Ret>>,
               <<Ret>>>>, <<>>, <<>>) :
        after \in {<<>>, <<Call(Qis(Body("rz")), <<const_float(1), Qubit(0)>>)>>}}

StraightPrograms ==
    {Program(2, 2, <<Numbered(b \o <<Ret>>, 0)>>, others, SubSeq(LabelGlobals, 1, 1)) :
        b \in {<<Call(Qis(Body("h")), <<Qubit(0)>>),
                 Call(Qis(Body("rzz")), <<const_float(2), Qubit(0), Qubit(1)>>)>>,
               <<Call(Qis(Body("mresetz")), <<Qubit(1), Result(1)>>),
                 Call(Rt(<<"result", U, "record", U, "output">>), <<Result(1), Label(1)>>),
                 Call(Qis(Body("reset")), <<Qubit(0)>>)>>,
               <<Call(<<"helper">>, <<Qubit(1)>>)>>},
        others \in {<<Helper(<<"helper">>,
                       <<Call(Qis(Body("rz")), <<const_float(1), Operand("param", 0)>>)>>)>>}}

\* programs whose blocks run in another order than the module holds them,
\* or more than once: a result measured, measured again in the last block
\* and recorded in the block between; a loop that reads the result and
\* measures it again until the value read is false
PathPrograms ==
    LET mz(q) == Call(Qis(Body("mz")), <<Qubit(q), Result(0)>>)
        record == Call(Rt(<<"result", U, "record", U, "output">>), <<Result(0), Label(1)>>)
        goto(b) == Instr("br", <<Operand("block", b)>>, 0)
    IN  {Program(2, 1, <<<<mz(0), goto(3)>>, <<record, Ret>>, <<mz(1), goto(2)>>>>,
                 <<>>, SubSeq(LabelGlobals, 1, 1)),
         Program(2, 1, <<<<mz(0), goto(2)>>,
                         <<CallValue(Rt(<<"read", U, "result">>), <<Result(0)>>, 1), mz(1),
                           Branch(Ssa(1))>>,
                         <<record, Ret>>>>,
                 <<>>, SubSeq(LabelGlobals, 1, 1))}

\* programs that need more qubits than the runtime has, one of them with a
\* global of its own under the name of the allocation failure's message
ExhaustingPrograms ==
    {Program(MaxQubits, 1, <<<<Call(Qis(Body("rz")), <<const_float(1), Qubit(0)>>), Ret>>>>,
             <<>>, globals) :
        globals \in {<<>>, <<Global(<<"e", U, "qalloc", U, "fail">>, "private", TRUE, TRUE,
                                   <<97, 0>>)>>}}

RunInputs ==
    RecursivePrograms \cup StraightPrograms \cup BranchPrograms \cup PathPrograms
    \cup ExhaustingPrograms

InitRun ==
    /\ pc = "add_decompositions"
    /\ module \in RunInputs
    /\ decompositions = <<>>
    /\ tr = NoLocals
    /\ run = NoRun
    /\ host = NoHost
    /\ unit = NoUnit
    /\ process = NoProcess
    /\ verdict = NoVerdict
    /\ vmod = VMod(<<>>, <<>>, FALSE, "valid")
    /\ errors = <<>>

SpecRun == InitRun /\ [][NextRun]_vars

\* the entry function as the outermost call of qmain is at an instruction
\* behind its prologue and before the frees of a return
InUserPart ==
    /\ Running
    /\ Len(run.stack) = 2
    /\ Top.fn = tr.entry
    /\ LET block == module.fns[Top.fn].body[Top.bb]
           n == Len(run.qis_qs)
       IN  /\ Top.bb = 1 => Top.ip > n
           /\ block[Len(block)].op = "ret" => Top.ip <= Len(block) - 2 * n

\* C4: in every execution of the translated entry function every element of
\* qis_qs holds a handle that ___qalloc returned and that is still
\* allocated, from the first instruction behind the prologue to the frees
\* before the return; no handle is passed to ___qfree unless it is
\* allocated, none is used by a gate, measurement or reset once freed, and
\* when the execution has returned every allocated handle has been freed.
C4_HandlesValidFreedOnce ==
    /\ ~run.bad_free
    /\ ~run.used_freed
    /\ InUserPart => \A i \in 1..Len(run.qis_qs) : run.qis_qs[i] \in run.live
    /\ (pc = "run" /\ run.status = "exited") => run.live = {}

(***************************************************************************)
(* validate_qir and qir_to_qis on the same bitcode, as the tests of        *)
(* convert.rs call them one after the other.  qir_to_qis_core parses the   *)
(* bitcode anew and starts with add_decompositions; the module flags are   *)
(* read by validate_module_flags alone.                                    *)
(***************************************************************************)
\* convert.rs 1559-1560: the second call, on the bytes the first was given
CallQirToQis ==
    /\ pc = "validated"
    /\ pc' = "add_decompositions"
    /\ verdict' = NoVerdict
    /\ UNCHANGED <<vmod, errors, module, decompositions, tr, run, host, unit, process>>

NextApi == NextValidate \/ CallQirToQis \/ NextTranslate

\* modules of every family the validator rejects, and modules it accepts
ApiPrograms ==
    HelperPrograms \cup AttributePrograms
    \cup {Program(2, 1, <<<<c, Ret>>>>, <<>>, <<>>) :
             c \in NativeCalls \cup OtherQisCalls \cup {Call(Rt(<<"foo">>), <<>>)}}

InitApi ==
    /\ pc = "validate"
    /\ module \in ApiPrograms
    /\ \E flags \in {GoodFlags, <<>>, <<Flag(1, TRUE, 0)>>} :
          vmod = VMod(module.fns, flags, FALSE, "none")
    /\ errors = <<>>
    /\ verdict = NoVerdict
    /\ decompositions = <<>>
    /\ tr = NoLocals
    /\ run = NoRun
    /\ host = NoHost
    /\ unit = NoUnit
    /\ process = NoProcess

SpecApi == InitApi /\ [][NextApi]_vars

\* validate_qir returned an error for the bitcode
Rejected == errors # <<>>

Translated == pc \in {"done", "run"}

\* C11: whenever validate_qir rejects a bitcode, qir_to_qis on the same
\* bitcode returns an error too and gives no bitcode.
C11_RejectedIsNotTranslated == (Translated /\ Rejected) => ~verdict.ok

(***************************************************************************)
(* Failures of qir_to_qis_core                                             *)
(***************************************************************************)
\* the call ended by a Rust panic, not by returning its Result
Panicked == ~verdict.ok /\ StartsWith(verdict.msg, <<"panicked: ">>)

\* C12: every failure of qir_to_qis is an error string returned to the
\* caller; in particular a result index at or beyond required_num_results
\* and a tag global that is not in the mapping table yield an error value,
\* never an abnormal end of the call.
C12_FailuresAreErrorValues == pc = "done" => ~Panicked

\* C13: no partial output.  When a step of the pipeline fails, here
\* add_decompositions (building, linking and verifying the decompositions),
\* qir_to_qis returns an error and never bitcode.
C13_NoPartialOutput == (pc = "done" /\ verdict.ok) => tr.decomposed.ok

(***************************************************************************)
(* qir_to_qis called twice by one process on the same bitcode, with the    *)
(* same optimization level and target.  Each call parses the bitcode anew  *)
(* and builds its own HashMap, whose hasher is drawn anew.                 *)
(***************************************************************************)
\* what a call returns: the Result, and the module written when it is Ok
Returned == [res |-> verdict, bc |-> IF verdict.ok THEN module ELSE NoModule]

CallAgain ==
    /\ pc = "done"
    /\ host.bitcode # NoModule
    /\ host.outputs = <<>>
    /\ host' = [host EXCEPT !.outputs = <<Returned>>]
    /\ module' = host.bitcode
    /\ decompositions' = <<>>
    /\ \E hasher \in {0, 1} :
          tr' = [NoLocals EXCEPT !.opt_level = tr.opt_level, !.target = tr.target,
                                 !.hasher = hasher]
    /\ verdict' = NoVerdict
    /\ pc' = "add_decompositions"
    /\ UNCHANGED <<vmod, errors, run, unit, process>>

NextTwice == NextTranslate \/ CallAgain

\* programs with two tags in the mapping table, with decomposed gates and
\* helper functions for the inliner, and programs the translation refuses
TwicePrograms ==
    {Program(1, 1, <<<<Call(Qis(Body("mz")), <<Qubit(0), Result(0)>>)>> \o b \o <<Ret>>>>,
             <<>>, LabelGlobals) :
        b \in {<<Call(Rt(<<"int", U, "record", U, "output">>), <<I64(5), Label(1)>>), y>> :
                  y \in RecordCalls({2, 3})}}
    \cup HelperPrograms \cup BranchPrograms
    \cup {Program(2, 1, <<Append(b, Ret)>>, <<>>, <<>>) : b \in SeqsUpTo(DecomposedCalls, 1)}

InitTwice ==
    /\ pc = "add_decompositions"
    /\ module \in TwicePrograms
    /\ host = [NoHost EXCEPT !.bitcode = module]
    /\ unit = NoUnit
    /\ process = NoProcess
    /\ decompositions = <<>>
    /\ \E target \in {"native", "riscv"}, hasher \in {0, 1} :
          tr = [NoLocals EXCEPT !.target = target, !.hasher = hasher]
    /\ run = NoRun
    /\ verdict = NoVerdict
    /\ vmod = VMod(<<>>, <<>>, FALSE, "valid")
    /\ errors = <<>>

SpecTwice == InitTwice /\ [][NextTwice]_vars

SecondCallDone == pc = "done" /\ host.outputs # <<>>

\* C14: two calls of qir_to_qis on the same bitcode, optimization level and
\* target return the same Result and the same globals and instructions,
\* whatever order the hashers give the tag mapping tables.
C14_Deterministic == SecondCallDone => host.outputs[1] = Returned

\* both calls succeeded on a program with two tags, and their tables were
\* stored in different orders
C14_Witness ==
    /\ SecondCallDone
    /\ verdict.ok
    /\ Len(tr.global_mapping) >= 2
    /\ tr.hasher = 1
    /\ \E i \in 1..Len(module.fns) : module.fns[i].name = <<"print", U, "int">>


(***************************************************************************)
(* The wrapper of the output module.                                       *)
(***************************************************************************)
UserPrefix == <<U, U, U, "user", U, "qir", U>>

\* the block add_qmain_wrapper builds around the entry function
IsWrapperBlock(block, entry_name) ==
    /\ Len(block) = 4
    /\ block[1].op = "call" /\ block[1].fn = <<"setup">>
    /\ block[1].args = <<Operand("param", 0)>>
    /\ block[2].op = "call" /\ block[2].fn = entry_name /\ block[2].args = <<>>
    /\ block[3].op = "call" /\ block[3].fn = <<"teardown">> /\ block[3].args = <<>>
    /\ block[3].id # 0
    /\ block[4].op = "ret" /\ block[4].args = <<Ssa(block[3].id)>>

Qmain == module.fns[FnIndex(module.fns, <<"qmain">>)]

\* C15: a translated module has a function qmain whose single block calls
\* setup with qmain's parameter, the entry function under its name
\* ___user_qir_<original name> and teardown, in this order, and returns what
\* teardown returned; the entry function has no string attributes left
C15_QmainWrapsEntry ==
    (pc = "done" /\ verdict.ok) =>
        /\ FnIndex(module.fns, <<"qmain">>) # 0
        /\ StartsWith(module.fns[tr.entry].name, UserPrefix)
        /\ module.fns[tr.entry].attrs = NoAttrs
        /\ Len(Qmain.body) = 1
        /\ IsWrapperBlock(Qmain.body[1], module.fns[tr.entry].name)


(***************************************************************************)
(* create_cl_str called on its own.  A string is the sequence of its       *)
(* bytes; the labels are runs of 'a' and runs of the two bytes of a        *)
(* character outside ASCII, of every length up to MaxLabel.                *)
(***************************************************************************)
MaxLabel == 246

Labels ==
    {[i \in 1..n |-> 97] : n \in 0..MaxLabel}
    \cup {[i \in 1..n |-> IF i % 2 = 1 THEN 195 ELSE 169] : n \in {m \in 0..MaxLabel : m % 2 = 0}}

InitUnit ==
    /\ pc = "unit"
    /\ \E tag \in {TagUSER, TagEXIT}, ty \in {TyRESULT, TyINT, TyQIRARRAY, <<>>},
          label \in Labels :
          unit = [f |-> "create_cl_str", args |-> <<tag, ty, label>>, ret |-> <<>>]
    /\ module = NoModule
    /\ decompositions = <<>>
    /\ tr = NoLocals
    /\ run = NoRun
    /\ host = NoHost
    /\ verdict = NoVerdict
    /\ vmod = VMod(<<>>, <<>>, FALSE, "valid")
    /\ errors = <<>>
    /\ process = NoProcess

CreateClStr ==
    /\ pc = "unit"
    /\ unit.f = "create_cl_str"
    /\ unit' = [unit EXCEPT !.ret = create_cl_str(unit.args[1], unit.args[2], unit.args[3])]
    /\ pc' = "returned"
    /\ UNCHANGED <<vmod, errors, verdict, module, decompositions, tr, run, host, process>>

NextUnit == CreateClStr

SpecUnit == InitUnit /\ [][NextUnit]_vars

\* the byte length of "<tag>:<type>:<label>"
ClStrLength == Len(unit.args[1]) + 1 + Len(unit.args[2]) + 1 + Len(unit.args[3])

\* C16: create_cl_str returns an error exactly when "<tag>:<type>:<label>"
\* has 256 bytes or more; otherwise it returns one byte more than the string
\* has, the first byte being the string's length; with the tag USER and the
\* type RESULT a label of 243 bytes is taken and one of 244 bytes refused
C16_ClStrLengthPrefix ==
    (pc = "returned" /\ unit.f = "create_cl_str") =>
        /\ unit.ret.ok <=> ClStrLength < 256
        /\ unit.ret.ok =>
              /\ Len(unit.ret.bytes) = ClStrLength + 1
              /\ unit.ret.bytes[1] = ClStrLength
              /\ SubSeq(unit.ret.bytes, 2, Len(unit.ret.bytes))
                    = unit.args[1] \o <<Colon>> \o unit.args[2] \o <<Colon>> \o unit.args[3]
        /\ (unit.args[1] = TagUSER /\ unit.args[2] = TyRESULT) =>
              (unit.ret.ok <=> Len(unit.args[3]) <= 243)

C16_Witness ==
    /\ pc = "returned"
    /\ unit.args[1] = TagUSER /\ unit.args[2] = TyRESULT
    /\ Len(unit.args[3]) = 243
    /\ unit.ret.ok /\ unit.ret.bytes[1] = 255


(***************************************************************************)
(* One step of process_entry_function as it shows in the entry function.   *)
(***************************************************************************)
\* an instruction without its operands, which replace_all_uses_with renames
Shape(ins) == [op |-> ins.op, fn |-> ins.fn, id |-> ins.id]

BlockTargets(ins) == SelectSeq(ins.args, LAMBDA o : o.kind = "block")

\* the calls of the runtime's quantum operations among instructions
QuantumOps == {Qtm(<<g>>) : g \in {"rxy", "rz", "rzz", "reset"}} \cup {Qtm(<<"lazy", U, "measure">>)}

QuantumCalls(block) ==
    LET ops == SelectSeq(block, LAMBDA ins : ins.op = "call" /\ ins.fn \in QuantumOps)
    IN  [i \in 1..Len(ops) |-> ops[i].fn]

\* the quantum operations a call of the input stands for
Substitution(fn) ==
    CASE fn \in {Qis(Body("rxy")), Qis(Body("u1q"))} -> <<Qtm(<<"rxy">>)>>
      [] fn = Qis(Body("rz")) -> <<Qtm(<<"rz">>)>>
      [] fn = Qis(Body("rzz")) -> <<Qtm(<<"rzz">>)>>
      [] fn \in {Qis(Body("mz")), Qis(Body("m"))} -> <<Qtm(<<"lazy", U, "measure">>)>>
      [] fn = Qis(Body("mresetz")) -> <<Qtm(<<"lazy", U, "measure">>), Qtm(<<"reset">>)>>
      [] fn = Qis(Body("reset")) -> <<Qtm(<<"reset">>)>>
      [] OTHER -> IF fn \in QuantumOps THEN <<fn>> ELSE <<>>

\* a step of the rewriter that did not fail, seen in the entry function:
\* the blocks before and after, and the growth of the block it works in
RewriteStep(old, new, bb, ip) ==
    LET k == Len(new[bb]) - Len(old[bb])
    IN  /\ Len(new) = Len(old)
        /\ \A b \in 1..Len(old) :
              /\ b # bb => [i \in 1..Len(new[b]) |-> Shape(new[b][i])]
                              = [i \in 1..Len(old[b]) |-> Shape(old[b][i])]
              /\ BlockTargets(new[b][Len(new[b])]) = BlockTargets(old[b][Len(old[b])])
        /\ k >= -1
        /\ \A i \in 1..(ip - 1) : Shape(new[bb][i]) = Shape(old[bb][i])
        /\ \A i \in (ip + 1)..Len(old[bb]) : Shape(new[bb][i + k]) = Shape(old[bb][i])
        /\ QuantumCalls(SubSeq(new[bb], ip, ip + k))
              = (IF old[bb][ip].op = "call" THEN Substitution(old[bb][ip].fn) ELSE <<>>)

\* C17: a step of the rewriter over the entry function leaves the number of
\* blocks, the other blocks' instructions, every branch target and the
\* instructions before and behind its call as they were and in their
\* order, and puts in the call's place the quantum operations the call
\* stands for, each once, with what they need built right before them
C17_RewriterPreservesOrder ==
    [][(pc = "process_entry" /\ pc' # "done") =>
          RewriteStep(module.fns[tr.entry].body, module'.fns[tr.entry].body, tr.bb, tr.ip)]_vars

\* a measurement with reset has been rewritten in a block that other
\* instructions follow
C17_Witness ==
    /\ pc = "process_entry"
    /\ tr.ip >= 4
    /\ LET block == module.fns[tr.entry].body[tr.bb]
       IN  /\ block[tr.ip - 1].fn = Qtm(<<"reset">>)
           /\ block[tr.ip - 2].fn = Qtm(<<"lazy", U, "measure">>)
           /\ block[tr.ip].op = "call"


(***************************************************************************)
(* The table of result futures, result_ssa, while process_entry_function   *)
(* runs.  A cell is None (empty), Some((future, None)) (pending) or        *)
(* Some((future, Some(bool))) (read).                                      *)
(***************************************************************************)
CellState(cell) ==
    IF ~cell.some THEN "empty" ELSE IF cell.bool = 0 THEN "pending" ELSE "read"

IsMeasurement(ins) ==
    ins.op = "call" /\ ins.fn \in {Qis(Body("mz")), Qis(Body("m")), Qis(Body("mresetz"))}

IsResultRead(ins) ==
    ins.op = "call"
    /\ ins.fn \in {Rt(<<"read", U, "result">>), Rt(<<"result", U, "record", U, "output">>)}

\* the cell of the table the call names, 0 if it names none
CellOf(ins) ==
    IF IsMeasurement(ins) THEN get_index(ins.args[2]).idx + 1
    ELSE IF IsResultRead(ins) THEN get_index(ins.args[1]).idx + 1
    ELSE 0

\* the calls of ___read_future_bool on the future in the function
ReadCalls(body) ==
    {at \in UNION {{<<b, i>> : i \in 1..Len(body[b])} : b \in 1..Len(body)} :
        /\ body[at[1]][at[2]].op = "call"
        /\ body[at[1]][at[2]].fn = Qtm(<<"read", U, "future", U, "bool">>)}

ReadsOfFuture(body, fut) ==
    {at \in ReadCalls(body) : body[at[1]][at[2]].args = <<Ssa(fut)>>}

\* the number the entry function's attribute required_num_results holds
RequiredNumResults ==
    DecimalValue(ParseU32(get_string_attribute(module.fns[tr.entry],
                                               "required_num_results").v).val)

\* the table as get_result_vars makes it
TableStarts ==
    (pc = "convert_globals" /\ pc' # "done") =>
        /\ Len(tr'.result_ssa) = RequiredNumResults
        /\ \A i \in 1..Len(tr'.result_ssa) : CellState(tr'.result_ssa[i]) = "empty"

\* the moves of the cells in a step of the rewriter, a measurement into a
\* cell that holds a future being no move
ForwardMoves ==
    (pc = "process_entry" /\ pc' # "done") =>
        /\ Len(tr'.result_ssa) = Len(tr.result_ssa)
        /\ \A i \in 1..Len(tr.result_ssa) :
              \/ tr'.result_ssa[i] = tr.result_ssa[i]
              \/ <<CellState(tr.result_ssa[i]), CellState(tr'.result_ssa[i])>>
                    \in {<<"empty", "pending">>, <<"pending", "read">>}

\* C18 as the specification words it: the table has required_num_results
\* cells, all empty when the rewriting starts, and a cell only moves from
\* empty to pending and from pending to read, where it stays
C18_CellsMoveForwardOnly == [][TableStarts /\ ForwardMoves]_vars

\* the moves of the cells in a step of the rewriter: a measurement makes
\* its cell pending on the future it built, a read or record of a pending
\* cell builds the one ___read_future_bool of the cell's future and makes
\* the cell read, a read or record of a read cell builds none, and every
\* other cell stays as it is
MeasurementMoves ==
    (pc = "process_entry" /\ pc' # "done") =>
        LET old == module.fns[tr.entry].body
            new == module'.fns[tr.entry].body
        IN  /\ Len(tr'.result_ssa) = Len(tr.result_ssa)
            /\ \A i \in 1..Len(tr.result_ssa) :
                  LET before == tr.result_ssa[i]
                      after == tr'.result_ssa[i]
                  IN  IF i # CellOf(Current) THEN after = before
                      ELSE IF IsMeasurement(Current)
                      THEN /\ CellState(after) = "pending"
                           /\ after.fut >= tr.next_id
                           /\ ReadsOfFuture(new, after.fut) = {}
                      ELSE /\ CellState(before) # "empty"
                           /\ CellState(after) = "read"
                           /\ after.fut = before.fut
                           /\ Cardinality(ReadsOfFuture(new, after.fut)) = 1
                           /\ CellState(before) = "read" => after = before
            /\ Cardinality(ReadCalls(new)) - Cardinality(ReadCalls(old))
                  = (IF IsResultRead(Current)
                        /\ CellState(tr.result_ssa[CellOf(Current)]) = "pending"
                     THEN 1 ELSE 0)

\* C18, with the measurement into a cell that holds a future: the table has
\* required_num_results cells, all empty when the rewriting starts; a
\* measurement makes its cell pending on its new future whatever the cell
\* held, the first read or record behind it makes the cell read, later ones
\* leave it read, so that each measurement is read from the runtime at most
\* once
C18_MeasurementsReadOnce == [][TableStarts /\ MeasurementMoves]_vars

\* a cell that was read is pending again
C18_Witness ==
    /\ pc = "process_entry"
    /\ \E i \in 1..Len(tr.result_ssa) :
          /\ CellState(tr.result_ssa[i]) = "pending"
          /\ \E fut \in 1..tr.next_id :
                /\ fut < tr.result_ssa[i].fut
                /\ ReadsOfFuture(module.fns[tr.entry].body, fut) # {}


(***************************************************************************)
(* The allocation prologue create_qubit_array builds.                      *)
(***************************************************************************)
RequiredNumQubits ==
    DecimalValue(ParseU32(get_string_attribute(module.fns[tr.entry],
                                               "required_num_qubits").v).val)

Prologue(n) == [i \in 1..n |-> Call(INIT_QARRAY_FN, <<I64(i - 1)>>)]

\* C20: when create_qubit_array has returned, the first block of the entry
\* function begins with the calls init_qubit(0), ..., init_qubit(N - 1), N
\* being required_num_qubits, followed by the instructions the block held
\* before, and the other blocks are as they were
C20_AllocationPrologue ==
    [][(pc = "create_qubit_array" /\ pc' # "done") =>
          LET old == module.fns[tr.entry].body
              new == module'.fns[tr.entry].body
          IN  /\ new[1] = Prologue(RequiredNumQubits) \o old[1]
              /\ new = [old EXCEPT ![1] = new[1]]]_vars

C20_Witness ==
    /\ pc = "convert_globals"
    /\ RequiredNumQubits = MaxQubits
    /\ Len(module.fns[tr.entry].body[1]) > MaxQubits + 1
    /\ SubSeq(module.fns[tr.entry].body[1], 1, MaxQubits) = Prologue(MaxQubits)


(***************************************************************************)
(* The values an execution of the translated entry function reads and      *)
(* prints for the results.  run.latest[i] is the outcome of the            *)
(* measurement into result i - 1 that the execution made last.             *)
(***************************************************************************)
\* the execution is about to read the future from the runtime, for the
\* read_result or result_record_output that the call was built for
AtFutureRead ==
    /\ Running
    /\ Top.fn = tr.entry
    /\ Executing.op = "call"
    /\ Executing.fn = ReadFutureBool
    /\ MeasuredInto(Executing.args[1].v) # 0

\* the execution is about to print the boolean of a result_record_output
AtResultPrint ==
    /\ Running
    /\ Top.fn = tr.entry
    /\ Executing.op = "call"
    /\ Executing.fn = <<"print", U, "bool">>
    /\ Executing.args[3].kind = "ssa"
    /\ ReadFrom(Executing.args[3].v) # 0

\* C19: in every execution of a translated program the boolean read from
\* the runtime in place of a read_result or result_record_output of index
\* i, and the boolean printed for a result_record_output of index i, is the
\* outcome of the measurement into index i that the execution made last
C19_ReadsSeeLatestMeasurement ==
    /\ AtFutureRead =>
          LET latest == run.latest[MeasuredInto(Executing.args[1].v)]
          IN  latest # NoOutcome => Eval(Executing.args[1]) = latest
    /\ AtResultPrint =>
          LET latest == run.latest[ReadFrom(Executing.args[3].v)]
          IN  latest # NoOutcome => Eval(Executing.args[3]) = latest


(***************************************************************************)
(* The steps an execution takes inside qir_qis.init_qubit.                 *)
(***************************************************************************)
InInitQubit == Running /\ module.fns[Top.fn].name = INIT_QARRAY_FN

\* the value ___qalloc returned to the call of init_qubit being executed
Allocated == Top.env[module.fns[Top.fn].body[1][1].id]

\* "EXIT:INT:No more qubits available to allocate." behind its length
AllocationMessage ==
    <<Len(TagEXIT) + Len(TyINT) + Len(NoMoreQubits) + 2>>
    \o TagEXIT \o <<Colon>> \o TyINT \o <<Colon>> \o NoMoreQubits

InitQubitStep ==
    InInitQubit =>
        /\ (Executing.op = "call" /\ Executing.fn = Qtm(<<"qalloc">>)) =>
              Top.bb = 1 /\ Top.ip = 1
        /\ (Executing.op = "call" /\ Executing.fn = <<"panic">>) =>
              /\ Allocated = U64_MAX
              /\ Eval(Executing.args[1]) = EXIT_CODE
              /\ Executing.args[2].kind = "global"
              /\ module.globals[Executing.args[2].v].init = AllocationMessage
        /\ Executing.op = "unreachable" =>
              /\ Allocated = U64_MAX
              /\ module.fns[Top.fn].body[Top.bb][Top.ip - 1].fn = <<"panic">>
        /\ (Executing.op = "call" /\ Executing.fn = Qtm(<<"reset">>)) =>
              /\ Allocated # U64_MAX
              /\ Eval(Executing.args[1]) = Allocated
        /\ Executing.op = "store" =>
              /\ Allocated # U64_MAX
              /\ module.fns[Top.fn].body[Top.bb][Top.ip - 2].fn = Qtm(<<"reset">>)
              /\ run'.qis_qs = [run.qis_qs EXCEPT ![Top.params[1] + 1] = Allocated]
        /\ Executing.op # "store" => run'.qis_qs = run.qis_qs

\* C21: an execution of init_qubit(i) calls ___qalloc first and once; when
\* the handle is u64::MAX it calls panic with 1001 and the message
\* "EXIT:INT:No more qubits available to allocate." and reaches unreachable,
\* with no ___reset and no store; otherwise it calls ___reset on the handle
\* and then stores the handle into qis_qs[i], and writes no other element
C21_InitQubit == [][InitQubitStep]_vars


(***************************************************************************)
(* The lowering of the native gates.                                       *)
(***************************************************************************)
IsNativeGate(ins) ==
    ins.op = "call" /\ ins.fn \in {Qis(Body(g)) : g \in {"rxy", "u1q", "rz", "rzz"}}

\* what a call of a native gate is to be replaced by, the new values
\* numbered from id
Lowered(ins, id) ==
    LET load(q, k) == CallValue(LOAD_QUBIT_FN, <<q>>, id + k)
    IN  CASE ins.fn \in {Qis(Body("rxy")), Qis(Body("u1q"))} ->
                <<load(ins.args[3], 0),
                  Call(Qtm(<<"rxy">>), <<Ssa(id), ins.args[1], ins.args[2]>>)>>
          [] ins.fn = Qis(Body("rz")) ->
                <<load(ins.args[2], 0), Call(Qtm(<<"rz">>), <<Ssa(id), ins.args[1]>>)>>
          [] ins.fn = Qis(Body("rzz")) ->
                <<load(ins.args[2], 0), load(ins.args[3], 1),
                  Call(Qtm(<<"rzz">>), <<Ssa(id), Ssa(id + 1), ins.args[1]>>)>>

\* C22: a call of rxy or u1q (a1, a2, q) is replaced by one call
\* ___rxy(load_qubit(q), a1, a2), a call of rz (a, q) by ___rz(load_qubit(q),
\* a), a call of rzz (a, q1, q2) by ___rzz(load_qubit(q1), load_qubit(q2), a),
\* and the call itself is erased: the block holds the new instructions in
\* the call's place and is otherwise as it was
C22_NativeGateLowering ==
    [][(/\ pc \in {"process_entry", "process_ir_defined"}
        /\ IsNativeGate(Current)
        /\ pc' # "done") =>
          LET old == module.fns[tr.fn].body
              new == module'.fns[tr.fn].body
          IN  new = [old EXCEPT ![tr.bb] =
                        SubSeq(old[tr.bb], 1, tr.ip - 1) \o Lowered(Current, tr.next_id)
                        \o SubSeq(old[tr.bb], tr.ip + 1, Len(old[tr.bb]))]]_vars

\* an rzz on two qubits has been lowered in the entry function
C22_Witness ==
    /\ pc = "process_entry"
    /\ tr.ip >= 4
    /\ LET block == module.fns[tr.entry].body[tr.bb]
       IN  /\ block[tr.ip - 1].fn = Qtm(<<"rzz">>)
           /\ block[tr.ip - 2].fn = LOAD_QUBIT_FN
           /\ block[tr.ip - 3].fn = LOAD_QUBIT_FN
           /\ block[tr.ip - 2].args # block[tr.ip - 3].args
           /\ block[tr.ip - 1].args[1] = Ssa(block[tr.ip - 3].id)


(***************************************************************************)
(* Measurement lowering                                                    *)
(***************************************************************************)
\* what a measurement of the qubit with index q into the result with index
\* r is to be replaced by, the new values numbered from id
LoweredMeasurement(ins, q, id) ==
    <<Instr("load", <<QubitElem(q)>>, id),
      CallValue(Qtm(<<"lazy", U, "measure">>), <<Ssa(id)>>, id + 1)>>
    \o (IF ins.fn = Qis(Body("mresetz"))
        THEN <<Call(Qtm(<<"reset">>), <<Ssa(id)>>)>> ELSE <<>>)

\* C23: a call of mz, m or mresetz on a qubit pointer and a result pointer
\* that are null or made from a constant integer, the result within the
\* table, is lowered and does not fail: in the call's place the block holds
\* the load of the handle at the qubit's index (0 for the null pointer, N
\* for the pointer made from N), the call of ___lazy_measure on the handle
\* and, for mresetz, the call of ___reset on the handle after it; the cell
\* at the result's index holds the future and no cached bool; the call
\* itself is gone and the rest of the block is as it was
C23_MeasurementLowering ==
    [][(/\ pc = "process_entry"
        /\ IsMeasurement(Current)
        /\ IsConstPtr(Current.args[1])
        /\ IsConstPtr(Current.args[2])
        /\ Current.args[2].v < Len(tr.result_ssa)) =>
          LET old == module.fns[tr.fn].body
              new == module'.fns[tr.fn].body
          IN  /\ pc' # "done"
              /\ new = [old EXCEPT ![tr.bb] =
                           SubSeq(old[tr.bb], 1, tr.ip - 1)
                           \o LoweredMeasurement(Current, Current.args[1].v, tr.next_id)
                           \o SubSeq(old[tr.bb], tr.ip + 1, Len(old[tr.bb]))]
              /\ tr'.result_ssa =
                    [tr.result_ssa EXCEPT ![Current.args[2].v + 1] =
                        [some |-> TRUE, fut |-> tr.next_id + 1, bool |-> 0]]]_vars

\* an mresetz of the qubit made from 1 into the result made from 1 has been
\* lowered: the load of element 1, the measurement, then the reset
C23_Witness ==
    /\ pc = "process_entry"
    /\ tr.ip >= 4
    /\ LET block == module.fns[tr.entry].body[tr.bb]
       IN  /\ block[tr.ip - 3] = Instr("load", <<QubitElem(1)>>, block[tr.ip - 3].id)
           /\ block[tr.ip - 2].fn = Qtm(<<"lazy", U, "measure">>)
           /\ block[tr.ip - 1] = Call(Qtm(<<"reset">>), <<Ssa(block[tr.ip - 3].id)>>)
           /\ tr.result_ssa[2] = [some |-> TRUE, fut |-> block[tr.ip - 2].id, bool |-> 0]


(***************************************************************************)
(* Labels of the record calls                                              *)
(***************************************************************************)
ClassicalRecords ==
    {Rt(<<g, U, "record", U, "output">>) : g \in {"bool", "int", "double", "array", "tuple"}}

\* the type tag and the print function of a classical record call
TypeTagOf(fn) ==
    CASE fn = Rt(<<"bool", U, "record", U, "output">>) -> TyBOOL
      [] fn = Rt(<<"int", U, "record", U, "output">>) -> TyINT
      [] fn = Rt(<<"double", U, "record", U, "output">>) -> TyFLOAT
      [] fn = Rt(<<"array", U, "record", U, "output">>) -> TyQIRARRAY
      [] fn = Rt(<<"tuple", U, "record", U, "output">>) -> TyQIRTUPLE

PrintOf(fn) ==
    CASE fn = Rt(<<"bool", U, "record", U, "output">>) -> <<"print", U, "bool">>
      [] fn = Rt(<<"double", U, "record", U, "output">>) -> <<"print", U, "float">>
      [] OTHER -> <<"print", U, "int">>

\* the label the tag global of a record call holds in the input: its bytes
\* up to the terminating NULs
OriginalLabel(ins) == trim_end_nul(module.globals[ins.args[2].v].init)

\* C24: when the rewriter handles a bool, int, double, array or tuple record
\* call of the entry function whose tag global holds the label L, the print
\* call in its place is the print function of the type, its tag global holds
\* "USER:<TYPE>:L" behind the length byte, whatever bytes L is made of, and
\* the value printed is the first operand of the record call
C24_LabelPreserved ==
    [][(Handled /\ Current.op = "call" /\ Current.fn \in ClassicalRecords) =>
          LET print == module'.fns[tr.entry].body[tr.bb][tr.ip]
              text == TagUSER \o <<Colon>> \o TypeTagOf(Current.fn) \o <<Colon>>
                      \o OriginalLabel(Current)
          IN  /\ print.fn = PrintOf(Current.fn)
              /\ print.args[3] = Current.args[1]
              /\ module'.globals[print.args[1].v].init = <<Len(text)>> \o text
      ]_vars


\* C25: when the rewriter handles a result_record_output of the entry
\* function, the print call in its place is a print_bool whose tag global
\* holds "USER:RESULT:<label>" behind the length byte, the label being the
\* one the call's tag global holds in the input, whatever record calls on
\* the same tag global were handled before it
C25_ResultTagKept ==
    [][(/\ Handled
        /\ Current.op = "call"
        /\ Current.fn = Rt(<<"result", U, "record", U, "output">>)) =>
          LET old == module.fns[tr.entry].body
              new == module'.fns[tr.entry].body
              print == new[tr.bb][tr.ip + Len(new[tr.bb]) - Len(old[tr.bb])]
              text == TagUSER \o <<Colon>> \o TyRESULT \o <<Colon>> \o OriginalLabel(Current)
          IN  /\ print.fn = <<"print", U, "bool">>
              /\ module'.globals[print.args[1].v].init = <<Len(text)>> \o text
      ]_vars


(***************************************************************************)
(* The translator's own functions in the input                             *)
(***************************************************************************)
InternalFunctions == {Qtm(<<"qalloc">>), Qtm(<<"reset">>), <<"panic">>}

\* the pass is at a call of ___qalloc, ___reset or panic in a function
\* other than qir_qis.init_qubit
AtInternalCall ==
    /\ pc \in {"process_entry", "process_ir_defined"}
    /\ Current.op = "call"
    /\ Current.fn \in InternalFunctions
    /\ module.fns[tr.fn].name # INIT_QARRAY_FN

\* C26: a call of ___qalloc, ___reset or panic that the entry pass or the
\* helper pass comes to in a function other than qir_qis.init_qubit, the
\* entry function included, makes the translation fail there
C26_InternalCallsRejected ==
    [][AtInternalCall => (pc' = "done" /\ ~verdict'.ok)]_vars

\* the helper pass alone: a call of ___qalloc, ___reset or panic in a
\* defined function other than the entry function and qir_qis.init_qubit
\* makes the translation fail there
C26_HelperInternalCallsRejected ==
    [][(AtInternalCall /\ pc = "process_ir_defined") =>
          (pc' = "done" /\ ~verdict'.ok)]_vars


(***************************************************************************)
(* Calls in the helpers                                                    *)
(***************************************************************************)
NativeBodies == {Qis(Body("rxy")), Qis(Body("rz")), Qis(Body("rzz"))}

\* the module has a defined function besides the entry function that calls
\* something other than rxy, rz or rzz
HelperCallsOther(fns) ==
    \E f \in 1..Len(fns) :
        /\ f # find_entry_function(fns)
        /\ \E b \in 1..Len(fns[f].body) : \E i \in 1..Len(fns[f].body[b]) :
              /\ fns[f].body[b][i].op = "call"
              /\ fns[f].body[b][i].fn \notin NativeBodies

\* C27 as stated: when a call of qir_to_qis has succeeded, the helpers of
\* the bitcode it was given held no calls but those of rxy, rz and rzz
C27_HelpersOnlyNative ==
    Succeeded => ~HelperCallsOther(host.bitcode.fns)

\* C27: a call that the helper pass comes to and whose target is not rxy, rz
\* or rzz makes the translation fail there: with "Unexpected call to
\* internal function" for ___qalloc, ___reset and panic outside
\* qir_qis.init_qubit, with "Unsupported function call" for every other
\* target; inside qir_qis.init_qubit the three pass
C27_HelperPassRejects ==
    [][(/\ pc = "process_ir_defined"
        /\ Current.op = "call"
        /\ Current.fn \notin NativeBodies
        /\ ~(Current.fn \in InternalFunctions /\ module.fns[tr.fn].name = INIT_QARRAY_FN)) =>
          /\ pc' = "done"
          /\ ~verdict'.ok
          /\ verdict'.msg[1] =
                IF Current.fn \in InternalFunctions
                THEN "Unexpected call to internal function: "
                ELSE "Unsupported function call: "
      ]_vars

\* the helper pass has refused a helper of the input that measures its
\* parameter
C27_Witness ==
    /\ pc = "done"
    /\ ~verdict.ok
    /\ verdict.msg[1] = "Unsupported function call: "
    /\ tr.fn # 0
    /\ module.fns[tr.fn].name = <<"helper">>
    /\ Current.fn = Qis(Body("mz"))


(***************************************************************************)
(* The validator and the rewriter on external functions                    *)
(***************************************************************************)
\* C28: a bitcode that validate_qir accepts is never refused by the
\* dispatch of the entry pass with "Unsupported function": every function
\* without a body and with a name of no reserved prefix that the validator
\* lets through and the entry function calls is one the rewriter leaves in
\* place
C28_AcceptedIsDispatched ==
    (Translated /\ ~Rejected) =>
        ~(~verdict.ok /\ verdict.msg # <<>> /\ verdict.msg[1] = "Unsupported function: ")


(***************************************************************************)
(* Reads of cells that hold no future                                      *)
(***************************************************************************)
ReadFutureCalls(body) ==
    {<<b, i>> \in UNION {{<<b, i>> : i \in 1..Len(body[b])} : b \in 1..Len(body)} :
        body[b][i].op = "call" /\ body[b][i].fn = Qtm(<<"read", U, "future", U, "bool">>)}

\* C29: a read_result or result_record_output that the entry pass comes to
\* while the cell of its result index holds no future makes the translation
\* fail there with "Expected measurement handle" and builds nothing; and a
\* step of the pass that builds a call of ___read_future_bool builds it for
\* a read of a cell that holds a future, on that future
C29_EmptyCellRefused ==
    [][(pc = "process_entry" /\ Current.op = "call") =>
          LET old == module.fns[tr.fn].body
              new == module'.fns[tr.fn].body
          IN  /\ (/\ IsResultRead(Current)
                  /\ IsConstPtr(Current.args[1])
                  /\ CellOf(Current) <= Len(tr.result_ssa)
                  /\ ~tr.result_ssa[CellOf(Current)].some) =>
                     /\ pc' = "done"
                     /\ verdict' = Err(<<"Expected measurement handle">>)
                     /\ module' = module
              /\ Cardinality(ReadFutureCalls(new)) > Cardinality(ReadFutureCalls(old)) =>
                     /\ IsResultRead(Current)
                     /\ tr.result_ssa[CellOf(Current)].some
                     /\ new[tr.bb][tr.ip].fn = Qtm(<<"read", U, "future", U, "bool">>)
                     /\ new[tr.bb][tr.ip].args = <<Ssa(tr.result_ssa[CellOf(Current)].fut)>>
      ]_vars

\* the pass has refused a read_result of a result that no measurement before
\* it was made into
C29_Witness ==
    /\ pc = "done"
    /\ verdict = Err(<<"Expected measurement handle">>)
    /\ tr.fn # 0
    /\ Current.fn = Rt(<<"read", U, "result">>)
    /\ ~tr.result_ssa[CellOf(Current)].some


(***************************************************************************)
(* optimize called by the threads of one process.  get_target_machine      *)
(* starts by forcing the static TARGET_INIT, a LazyLock whose closure      *)
(* initializes the x86, the aarch64 and the native target.  process.once   *)
(* is the state of the LazyLock, process.x86, process.aarch64 and          *)
(* process.native count the runs of the three initializations,             *)
(* process.early tells whether a target machine was built while the        *)
(* LazyLock was not complete, process.threads holds where each thread is   *)
(* and how many of its calls have returned.                                *)
(***************************************************************************)
MaxThreads == 3       \* threads of the process
MaxCalls == 2         \* calls of optimize by one thread

Threads == 1..MaxThreads

\* a force that runs the closure whenever the value is not there yet
LazyLock_force_unsynchronised(once) ==
    IF once = "complete" THEN "ready" ELSE "run"

\* LazyLock::force, as `*TARGET_INIT` calls it: the first thread runs the
\* closure, a thread that comes while it runs waits for it to finish, a
\* thread that comes later finds the value
LazyLock_force(once) ==
    CASE once = "complete" -> "ready"
      [] once = "uninit" -> "run"
      [] once = "running" -> "wait"

InitTargets ==
    /\ pc = "threads"
    /\ process = [NoProcess EXCEPT
                     !.threads = [t \in Threads |-> [calls |-> 0, at |-> "idle"]]]
    /\ module = NoModule
    /\ decompositions = <<>>
    /\ tr = NoLocals
    /\ run = NoRun
    /\ host = NoHost
    /\ unit = NoUnit
    /\ verdict = NoVerdict
    /\ vmod = VMod(<<>>, <<>>, FALSE, "valid")
    /\ errors = <<>>

At(t, where) == pc = "threads" /\ process.threads[t].at = where

OutsideProcess == <<pc, vmod, errors, verdict, module, decompositions, tr, run, host, unit>>

\* optimize up to its call of get_target_machine
CallOptimize(t) ==
    /\ At(t, "idle")
    /\ process.threads[t].calls < MaxCalls
    /\ process' = [process EXCEPT !.threads[t].at = "get_target_machine"]
    /\ UNCHANGED OutsideProcess

\* get_target_machine: let _ = *TARGET_INIT
ForceTargetInit(t) ==
    /\ At(t, "get_target_machine")
    /\ LazyLock_force(process.once) # "wait"
    /\ process' = IF LazyLock_force(process.once) = "run"
                  THEN [process EXCEPT !.once = "running",
                                       !.threads[t].at = "initialize_x86"]
                  ELSE [process EXCEPT !.threads[t].at = "match"]
    /\ UNCHANGED OutsideProcess

\* the closure of TARGET_INIT: Target::initialize_x86
InitializeX86(t) ==
    /\ At(t, "initialize_x86")
    /\ process' = [process EXCEPT !.x86 = @ + 1, !.threads[t].at = "initialize_aarch64"]
    /\ UNCHANGED OutsideProcess

\* the closure of TARGET_INIT: Target::initialize_aarch64
InitializeAarch64(t) ==
    /\ At(t, "initialize_aarch64")
    /\ process' = [process EXCEPT !.aarch64 = @ + 1, !.threads[t].at = "initialize_native"]
    /\ UNCHANGED OutsideProcess

\* the closure of TARGET_INIT: Target::initialize_native and Mutex::new, with
\* which the closure returns and the LazyLock is complete
InitializeNative(t) ==
    /\ At(t, "initialize_native")
    /\ process' = [process EXCEPT !.once = "complete", !.native = @ + 1,
                                  !.threads[t].at = "match"]
    /\ UNCHANGED OutsideProcess

\* get_target_machine behind the force: the match on the target's name; an
\* unknown name returns the error, a known one builds the target machine
CreateTargetMachine(t) ==
    /\ At(t, "match")
    /\ \E target \in {"x86-64", "aarch64", "native", "riscv"} :
          IF ~get_target_machine(target).ok
          THEN process' = [process EXCEPT !.threads[t] = [calls |-> @.calls + 1, at |-> "idle"]]
          ELSE process' = [process EXCEPT !.early = @ \/ process.once # "complete",
                                          !.threads[t].at = "run_passes"]
    /\ UNCHANGED OutsideProcess

\* optimize behind get_target_machine: the triple, the data layout, the passes
RunPasses(t) ==
    /\ At(t, "run_passes")
    /\ process' = [process EXCEPT !.threads[t] = [calls |-> @.calls + 1, at |-> "idle"]]
    /\ UNCHANGED OutsideProcess

NextTargets ==
    \E t \in Threads :
        \/ CallOptimize(t)
        \/ ForceTargetInit(t)
        \/ InitializeX86(t)
        \/ InitializeAarch64(t)
        \/ InitializeNative(t)
        \/ CreateTargetMachine(t)
        \/ RunPasses(t)

SpecTargets == InitTargets /\ [][NextTargets]_vars

\* the thread is behind the force of TARGET_INIT, in this call or an earlier one
BehindForce(t) ==
    process.threads[t].at \in {"match", "run_passes"} \/ process.threads[t].calls > 0

\* C30: however many calls of optimize the threads of a process make and
\* however they interleave, each of the three target initializations runs
\* at most once, has run exactly once as soon as a call is behind the force
\* of TARGET_INIT, and no target machine is built before the
\* initialization has completed
C30_TargetsInitializedOnce ==
    pc = "threads" =>
        /\ process.x86 <= 1 /\ process.aarch64 <= 1 /\ process.native <= 1
        /\ ~process.early
        /\ \A t \in Threads :
              BehindForce(t) =>
                 /\ process.once = "complete"
                 /\ process.x86 = 1 /\ process.aarch64 = 1 /\ process.native = 1

\* every thread has made all its calls, and one thread was waiting at the
\* force while another ran the initialization
C30_Witness ==
    /\ pc = "threads"
    /\ \A t \in Threads : process.threads[t].calls = MaxCalls
    /\ process.x86 = 1 /\ process.aarch64 = 1 /\ process.native = 1

=============================================================================
